---- MODULE Spec2Model ----
(***************************************************************************)
(* State-machine model of the eBay OAuth token server.                     *)
(*                                                                         *)
(*   src/tokenManager.js          file-backed token store (tokens.json)    *)
(*   src/tokenManager.vercel.js   Redis-backed token store                 *)
(*   src/unnamed/part_001         express server on the file store         *)
(*   src/unnamed/part_000         express servers on the Redis store       *)
(*                                                                         *)
(* Time is Date.now() in milliseconds, counted from the start of the run.  *)
(* Access and refresh tokens are positive integers handed out by the       *)
(* provider; the JavaScript values undefined, NaN and null are the         *)
(* negative numbers Undefined, NaN and Null.                               *)
(***************************************************************************)
EXTENDS Integers, Sequences, FiniteSets, TLC

----------------------------------------------------------------------------
(* Bounds of the model *)

\* number of clock advances in one run
MaxTicks == 1
\* number of get-token requests started in one run
MaxRequests == 2
\* number of callback requests started in one run
MaxCallbacks == 1
\* number of delete requests in one run
MaxDeletes == 1
\* number of store calls (file or Redis I/O) that fail in one run
MaxFaults == 1
\* number of tokenManager calls in one run of SpecStore
MaxCalls == 3
\* requests on the listing, test and delete routes in a run of SpecRoutes
MaxApiRequests == 1

\* amounts by which the clock advances: one millisecond, and the Fresh period
\* of a token issued for 7200 seconds
TickSet == {1, 6900000}
\* expires_in values (seconds) the provider answers with
ExpiresInSet == {300, 7200}
\* eBay user names the identity endpoint answers with
Names == {"alice"}
\* the get-token requests of a run, numbered in the order they arrive
ReqIds == 1..MaxRequests

----------------------------------------------------------------------------
(* JavaScript values *)

NaN == -1
Null == -2
Undefined == -3

\* !v is false: a non-empty string or a non-zero number
Truthy(v) == v > 0

\* expiresIn * 1000
Times1000(expiresIn) ==
  IF expiresIn = Null THEN 0
  ELSE IF expiresIn < 0 THEN NaN
  ELSE expiresIn * 1000

\* a + b on numbers
Plus(a, b) == IF a = NaN \/ b = NaN THEN NaN ELSE a + b

\* the properties of a token record that hold a string or a number; userId
\* is always a string
ValueFields == {"accessToken", "refreshToken", "expiresAt"}

\* JSON.stringify(rec): a document, the function from the properties it
\* writes to their values. A property that is undefined is left out, a NaN
\* number is written as null.
JSONstringify(rec) ==
  [k \in {"userId"} \cup {f \in ValueFields : rec[f] # Undefined} |->
     IF k = "userId" THEN rec.userId
     ELSE IF rec[k] = NaN THEN Null ELSE rec[k]]

\* JSON.parse(doc), read as a token record: a property the document does not
\* have reads as undefined
JSONparse(doc) ==
  [accessToken  |-> IF "accessToken" \in DOMAIN doc THEN doc["accessToken"] ELSE Undefined,
   refreshToken |-> IF "refreshToken" \in DOMAIN doc THEN doc["refreshToken"] ELSE Undefined,
   expiresAt    |-> IF "expiresAt" \in DOMAIN doc THEN doc["expiresAt"] ELSE Undefined,
   userId       |-> doc["userId"]]

\* user identifiers: a name the identity endpoint gave, or `user_${Date.now()}`
UserId(name) == <<name, 0>>
\* mutant: the timestamp is left out
SyntheticUser_Fixed(t) == <<"user_", 0>>
SyntheticUser(t) == <<"user_", t>>
\* req.params.username when the path carries none
NoUser == <<"", 0>>
Users == {UserId(n) : n \in Names}

\* null / a found record, as a sequence of length 0 / 1
None == <<>>
Some(rec) == <<rec>>

----------------------------------------------------------------------------
(* Token store, shared *)

RefreshSkew == 300000

\* mutant: the expiry computed without the conversion to milliseconds
ExpiresAt_Seconds(t, expiresIn) == Plus(t, IF expiresIn < 0 THEN NaN ELSE expiresIn)

\* Date.now() + (expiresIn * 1000)
ExpiresAt(t, expiresIn) == Plus(t, Times1000(expiresIn))

\* mutant: the two tokens stored in each other's place
NewRecord_Swapped(userId, accessToken, refreshToken, expiresIn, t) ==
  [accessToken  |-> refreshToken,
   refreshToken |-> accessToken,
   expiresAt    |-> ExpiresAt(t, expiresIn),
   userId       |-> userId]

\* the record saveTokens builds
NewRecord(userId, accessToken, refreshToken, expiresIn, t) ==
  [accessToken  |-> accessToken,
   refreshToken |-> refreshToken,
   expiresAt    |-> ExpiresAt(t, expiresIn),
   userId       |-> userId]

\* mutant: the new access token is not assigned
UpdatedRecord_KeepsToken(tokens, accessToken, expiresIn, t) ==
  [tokens EXCEPT !.expiresAt = ExpiresAt(t, expiresIn)]

\* mutant: the record is rebuilt without its refresh token
UpdatedRecord_DropsRefresh(tokens, accessToken, expiresIn, t) ==
  [accessToken  |-> accessToken,
   refreshToken |-> Undefined,
   expiresAt    |-> ExpiresAt(t, expiresIn),
   userId       |-> tokens.userId]

\* mutant: the new expiry is not assigned
UpdatedRecord_KeepsExpiry(tokens, accessToken, expiresIn, t) ==
  [tokens EXCEPT !.accessToken = accessToken]

\* the assignments of updateAccessToken to the record it read
UpdatedRecord(tokens, accessToken, expiresIn, t) ==
  [tokens EXCEPT !.accessToken = accessToken,
                 !.expiresAt = ExpiresAt(t, expiresIn)]

\* mutant: the five minutes are not subtracted
isTokenExpired_NoSkew(tokens, t) ==
  IF tokens = None \/ ~Truthy(tokens[1].expiresAt)
  THEN TRUE
  ELSE t >= tokens[1].expiresAt

\* mutant: a token that expires in exactly five minutes is not yet refreshed
isTokenExpired_Strict(tokens, t) ==
  IF tokens = None \/ ~Truthy(tokens[1].expiresAt)
  THEN TRUE
  ELSE t > tokens[1].expiresAt - RefreshSkew

\* isTokenExpired, on the result of its getTokens call and its Date.now()
isTokenExpired(tokens, t) ==
  IF tokens = None \/ ~Truthy(tokens[1].expiresAt)
  THEN TRUE
  ELSE t >= tokens[1].expiresAt - RefreshSkew

----------------------------------------------------------------------------
(* File-backed store: an object is its properties in insertion order, a     *)
(* sequence of [key, val]; tokens.json holds the document of each val.      *)

Keys(tokens) == [i \in 1..Len(tokens) |-> tokens[i].key]

HasKey(tokens, userId) == \E i \in 1..Len(tokens) : tokens[i].key = userId

\* tokens[userId], for a userId that is not the name of a member of
\* Object.prototype
Prop(tokens, userId) ==
  IF HasKey(tokens, userId)
  THEN Some(tokens[CHOOSE i \in 1..Len(tokens) : tokens[i].key = userId].val)
  ELSE None

\* tokens[userId] = val
SetProp(tokens, userId, val) ==
  IF HasKey(tokens, userId)
  THEN [i \in 1..Len(tokens) |->
          IF tokens[i].key = userId THEN [key |-> userId, val |-> val]
          ELSE tokens[i]]
  ELSE Append(tokens, [key |-> userId, val |-> val])

\* JSON.parse / JSON.stringify of the whole tokens object
JSONparseAll(file) ==
  [i \in 1..Len(file) |-> [key |-> file[i].key, val |-> JSONparse(file[i].val)]]
JSONstringifyAll(tokens) ==
  [i \in 1..Len(tokens) |->
     [key |-> tokens[i].key, val |-> JSONstringify(tokens[i].val)]]

\* mutant: the content is returned although the read failed
loadTokens_file_IgnoresFailure(file, readOk) == JSONparseAll(file)

loadTokens_file(file, readOk) == IF readOk THEN JSONparseAll(file) ELSE <<>>

getTokens_file(file, userId, readOk) ==
  Prop(loadTokens_file(file, readOk), userId)

\* mutant: saveTokens starts from an empty object instead of the file's content
saveTokens_file_Replaces(file, userId, accessToken, refreshToken, expiresIn, t, readOk) ==
  JSONstringifyAll(
    SetProp(<<>>, userId,
            NewRecord(userId, accessToken, refreshToken, expiresIn, t)))

\* the object saveTokens hands to writeFileSync
saveTokens_file(file, userId, accessToken, refreshToken, expiresIn, t, readOk) ==
  JSONstringifyAll(
    SetProp(loadTokens_file(file, readOk), userId,
            NewRecord(userId, accessToken, refreshToken, expiresIn, t)))

\* whether updateAccessToken reaches its writeFileSync
updateWrites_file(file, userId, readOk) ==
  HasKey(loadTokens_file(file, readOk), userId)

\* the object updateAccessToken hands to writeFileSync
updateAccessToken_file(file, userId, accessToken, expiresIn, t, readOk) ==
  LET tokens == loadTokens_file(file, readOk) IN
  JSONstringifyAll(
    SetProp(tokens, userId,
            UpdatedRecord(Prop(tokens, userId)[1], accessToken, expiresIn, t)))

----------------------------------------------------------------------------
(* Redis-backed store: one string per key `ebay_token:${userId}`            *)

TOKEN_PREFIX == "ebay_token:"

RedisKey(userId) == <<TOKEN_PREFIX, userId>>

\* key.replace(TOKEN_PREFIX, '')
UserOfKey(key) == key[2]

getTokens_redis(kv, userId, readOk) ==
  IF readOk /\ RedisKey(userId) \in DOMAIN kv
  THEN Some(JSONparse(kv[RedisKey(userId)]))
  ELSE None

\* client.set(key, value)
RedisSet(kv, key, value) ==
  [k \in DOMAIN kv \cup {key} |-> IF k = key THEN value ELSE kv[k]]

\* client.del(key)
RedisDel(kv, key) == [k \in DOMAIN kv \ {key} |-> kv[k]]

saveTokens_redis(kv, userId, accessToken, refreshToken, expiresIn, t) ==
  RedisSet(kv, RedisKey(userId),
           JSONstringify(NewRecord(userId, accessToken, refreshToken, expiresIn, t)))

\* whether updateAccessToken reaches its client.set
updateWrites_redis(kv, userId, readOk) == getTokens_redis(kv, userId, readOk) # None

\* mutant: a missing record is created instead of skipped
updateAccessToken_redis_Upsert(kv, userId, accessToken, expiresIn, t, readOk) ==
  LET tokens == getTokens_redis(kv, userId, readOk) IN
  RedisSet(kv, RedisKey(userId),
           JSONstringify(IF tokens # None
                         THEN UpdatedRecord(tokens[1], accessToken, expiresIn, t)
                         ELSE NewRecord(userId, accessToken, Undefined, expiresIn, t)))

\* the keyspace after updateAccessToken, its read and its SET one after the other
updateAccessToken_redis(kv, userId, accessToken, expiresIn, t, readOk) ==
  LET tokens == getTokens_redis(kv, userId, readOk) IN
  IF tokens # None
  THEN RedisSet(kv, RedisKey(userId),
                JSONstringify(UpdatedRecord(tokens[1], accessToken, expiresIn, t)))
  ELSE kv

----------------------------------------------------------------------------
(* State *)

VARIABLES
  backend,     \* "file": part_001 on tokenManager.js; "redis": part_000 on tokenManager.vercel.js
  API_SECRET,  \* process.env.API_SECRET of the protected server
  api,         \* SpecRoutes: the request on a listing, test or delete route
  now,         \* Date.now()
  ticks,       \* clock advances so far
  tokensFile,  \* the parsed content of tokens.json ({} when the file does not exist)
  redisKV,     \* the Redis keyspace: key -> stored JSON document
  minted,      \* tokens the provider has issued so far
  started,     \* get-token requests started so far
  req,         \* the get-token requests
  cbStarted,   \* callback requests started so far
  cb,          \* the callback request
  deletes,     \* history: the deleteTokens calls so far, in order
  faults,      \* store calls that failed so far
  writeSeq,    \* history: store writes (file write, SET, DEL) done so far
  lastWriter,  \* history: the get-token request that did the last write, or 0
  calls,       \* SpecStore: tokenManager calls made so far
  call         \* SpecStore: the last tokenManager call, its arguments and results

vars == <<backend, API_SECRET, api, now, ticks, tokensFile, redisKV, minted,
          started, req, cbStarted, cb, deletes, faults, writeSeq, lastWriter,
          calls, call>>

\* the provider's answer to a refresh when it carries no access_token
NoData == [access_token |-> Undefined, expires_in |-> Undefined]

NoRes == [status |-> 0, accessToken |-> Undefined, refreshed |-> FALSE]

ReqIdle ==
  [pc       |-> "idle",
   param    |-> NoUser,     \* req.params.username
   keys     |-> <<>>,       \* loadTokens: keys still to get
   users    |-> <<>>,       \* Object.keys(allTokens)
   username |-> NoUser,
   tokens   |-> None,       \* result of the handler's getTokens
   data     |-> NoData,     \* the provider's refresh response
   upd      |-> None,       \* updateAccessToken: the record about to be set
   res      |-> NoRes,      \* the response sent
   \* history of the request, read by the properties only
   hadRecord    |-> FALSE,  \* the store held a record for param at some step
   chkRec       |-> None,   \* the stored record when isTokenExpired ran
   chkTime      |-> Undefined, \* Date.now() when isTokenExpired ran
   refreshCalls |-> 0,      \* calls of ebayAuthToken.getAccessToken
   refreshWith  |-> Undefined, \* the refresh token passed to it
   updRec       |-> None,   \* the record updateAccessToken read
   updTime      |-> Undefined, \* Date.now() in updateAccessToken
   writes       |-> 0,      \* store writes done
   stored       |-> None,   \* the stored record when the response was sent
   faulted      |-> FALSE,  \* a store call of the request failed
   writeFailed  |-> FALSE,  \* the write of updateAccessToken failed
   w0           |-> 0,      \* writeSeq when the request arrived
   wEnd         |-> 0,      \* writeSeq when the response was sent
   steps        |-> <<>>]   \* the steps of the handler so far, in order

CbIdle ==
  [pc        |-> "idle",
   code      |-> FALSE,
   error     |-> FALSE,
   tokenData |-> [access_token |-> Undefined, refresh_token |-> Undefined,
                  expires_in |-> Undefined],
   username  |-> NoUser,
   rec       |-> None,      \* saveTokens: the record about to be set
   status    |-> 0,
   \* history
   saveTime  |-> Undefined,
   stored    |-> None,
   exchanged  |-> FALSE,    \* exchangeCodeForAccessToken was called
   identified |-> FALSE,    \* getEbayUsername was called
   fellBack   |-> FALSE,    \* getEbayUsername failed
   wrote      |-> FALSE,    \* the write of saveTokens was done
   seq        |-> 0,        \* the number of that write among the store writes
   writeFailed |-> FALSE,   \* the write of saveTokens failed
   readFailed |-> FALSE,    \* the read of saveTokens failed
   preFile    |-> <<>>,     \* tokens.json before saveTokens wrote
   preKV      |-> <<>>,     \* the keyspace before saveTokens wrote
   postFile   |-> <<>>,     \* tokens.json as saveTokens wrote it
   postKV     |-> <<>>]     \* the keyspace after the SET of saveTokens

\* secrets: the configured one, another one, and a header, query parameter or
\* environment variable that is not there
Secret == "s3cret"
WrongSecret == "guess"
Absent == "undefined"
\* !s is false
TruthyStr(s) == s \notin {Absent, ""}

\* SpecRoutes: no request yet
\* no run of the get-token steps
NoRun ==
  [status |-> 0, accessToken |-> Undefined, refreshed |-> FALSE, storeCalls |-> 0,
   provider |-> 0, wrote |-> FALSE, kv |-> <<>>, username |-> NoUser]

ApiIdle ==
  [pc       |-> "idle",
   n        |-> 0,          \* requests so far
   route    |-> "",
   header   |-> Absent,     \* req.headers['x-api-secret']
   query    |-> Absent,     \* req.query.secret
   html     |-> FALSE,      \* req.headers.accept includes text/html
   param    |-> NoUser,     \* req.params.username
   status   |-> 0,
   body     |-> <<>>,       \* the entries of the response, one per user
   \* history
   reads    |-> 0,          \* store reads made for the request
   writes   |-> 0,          \* store writes made for the request
   provider |-> 0,          \* calls to the provider made for the request
   preFile  |-> <<>>,       \* tokens.json when the request arrived
   preKV    |-> <<>>,       \* the keyspace when the request arrived
   first    |-> NoUser,     \* get-token: Object.keys(allTokens)[0] of a loadTokens
                            \* that does not fail
   run      |-> NoRun,      \* get-token: what the handler did
   twin     |-> NoRun]      \* get-token: what it does when asked for `first`

\* SpecStore: the previous call, as the next one remembers it
NoPrev ==
  [op |-> "none", userId |-> NoUser, accessToken |-> Undefined,
   refreshToken |-> Undefined, expiresIn |-> Undefined, time |-> 0,
   fileThrew |-> FALSE, redisThrew |-> FALSE,
   fileHad |-> FALSE, redisHad |-> FALSE]

NoCall ==
  [op |-> "none", userId |-> NoUser, accessToken |-> Undefined,
   refreshToken |-> Undefined, expiresIn |-> Undefined,
   time        |-> 0,       \* Date.now() during the call
   preFile     |-> <<>>,    \* tokens.json before the call
   preKV       |-> <<>>,    \* the keyspace before the call
   fileReadOk  |-> TRUE,    \* the call's read of tokens.json succeeded
   redisReadOk |-> TRUE,    \* the call's GET succeeded
   fileWrote   |-> FALSE,   \* the call wrote tokens.json
   redisWrote  |-> FALSE,   \* the call's SET was done
   fileThrew   |-> FALSE,   \* the file-backed call threw
   redisThrew  |-> FALSE,   \* the Redis-backed call threw
   fileRes     |-> None,    \* what the file-backed getTokens returned
   redisRes    |-> None,    \* what the Redis-backed getTokens returned
   fileLoad    |-> <<>>,    \* what the file-backed loadTokens returned
   redisLoad   |-> <<>>,    \* what the Redis-backed loadTokens returned
   fileExpired  |-> FALSE,  \* what the file-backed isTokenExpired returned
   redisExpired |-> FALSE,  \* what the Redis-backed isTokenExpired returned
   prev        |-> NoPrev]

InFlight(rq) == rq.pc \notin {"idle", "done"}

\* the record stored for userId, whatever the backend
StoredIn(file, kv, userId) ==
  IF backend = "file" THEN getTokens_file(file, userId, TRUE)
  ELSE getTokens_redis(kv, userId, TRUE)

Stored(userId) == StoredIn(tokensFile, redisKV, userId)

\* all orders in which KEYS can list the keys of S
Orders(S) ==
  {s \in [1..Cardinality(S) -> S] :
     \A i, j \in 1..Cardinality(S) : i # j => s[i] # s[j]}

\* the number of failed store calls among oks
Failed(oks) == Cardinality({i \in DOMAIN oks : ~oks[i]})

\* the store calls of a step fail as oks says
Faults(oks) ==
  /\ faults + Failed(oks) <= MaxFaults
  /\ faults' = faults + Failed(oks)

\* the requests and the counters of a run that starts
InitLocals ==
  /\ api = ApiIdle
  /\ now = 0
  /\ ticks = 0
  /\ minted = 0
  /\ started = 0
  /\ req = [r \in ReqIds |-> ReqIdle]
  /\ cbStarted = 0
  /\ cb = CbIdle
  /\ deletes = <<>>
  /\ faults = 0
  /\ writeSeq = 0
  /\ lastWriter = 0
  /\ calls = 0
  /\ call = NoCall

\* an empty store, API_SECRET configured
InitCommon ==
  /\ InitLocals
  /\ API_SECRET = Secret
  /\ tokensFile = <<>>
  /\ redisKV = <<>>

Init ==
  /\ backend \in {"file", "redis"}
  /\ InitCommon

Tick(d) ==
  /\ ticks < MaxTicks
  /\ now' = now + d
  /\ ticks' = ticks + 1
  /\ UNCHANGED <<backend, API_SECRET, api, tokensFile, redisKV, minted, started, req,
                 cbStarted, cb, deletes, faults, writeSeq, lastWriter, calls, call>>

----------------------------------------------------------------------------
(* GET /api/get-token/:username? *)

\* history: the handler has done the step `name`
Step(rq, name) == [rq EXCEPT !.steps = Append(@, name)]

\* res.status(status).json(...) / res.json(...)
Respond(rq, status, accessToken, refreshed, file, kv, seq) ==
  [rq EXCEPT !.pc = "done",
             !.steps = Append(@, "respond"),
             !.keys = <<>>,
             !.users = <<>>,
             !.tokens = None,
             !.upd = None,
             !.res = [status |-> status, accessToken |-> accessToken,
                      refreshed |-> refreshed],
             !.stored = StoredIn(file, kv, rq.username),
             !.wEnd = seq]

\* a response that follows no write of the request
Answer(rq, status, accessToken, refreshed) ==
  Respond(rq, status, accessToken, refreshed, tokensFile, redisKV, writeSeq)

\* the history kept at every step of a request
Seen(rq, ok) ==
  [rq EXCEPT !.hadRecord = @ \/ (rq.param # NoUser /\ Stored(rq.param) # None),
             !.faulted = @ \/ ~ok]

\* the handler from `const users = Object.keys(allTokens)` to its getTokens call
AfterLoad(rq, users) ==
  IF Len(users) = 0
  THEN Answer(rq, 404, Undefined, FALSE)
  ELSE [rq EXCEPT !.pc = "get",
                  !.keys = <<>>,
                  !.users = users,
                  !.username = IF rq.param # NoUser THEN rq.param ELSE users[1]]

\* mutant: the handler goes on without the `if (!tokens)` check, and the
\* read of tokens.refreshToken throws into its catch
AfterGet_Unchecked(rq, tokens) ==
  IF tokens = None
  THEN Answer(Step(rq, "read"), 500, Undefined, FALSE)
  ELSE [Step(rq, "read") EXCEPT !.pc = "expired", !.tokens = tokens]

\* the handler from `if (!tokens)` to its isTokenExpired call
AfterGet(rq, tokens) ==
  IF tokens = None
  THEN Answer(Step(rq, "read"), 404, Undefined, FALSE)
  ELSE [Step(rq, "read") EXCEPT !.pc = "expired", !.tokens = tokens]

\* the handler from `if (await tokenManager.isTokenExpired(username))` to the
\* call of ebayAuthToken.getAccessToken or the response
AfterExpired(rq, read) ==
  LET h == [Step(rq, "classify") EXCEPT !.chkRec = Stored(rq.username),
                                        !.chkTime = now] IN
  IF isTokenExpired(read, now)
  THEN [h EXCEPT !.pc = "refresh",
                 !.refreshCalls = @ + 1,
                 !.refreshWith = rq.tokens[1].refreshToken]
  ELSE Answer(h, 200, rq.tokens[1].accessToken, FALSE)

StartReq(p) == [ReqIdle EXCEPT !.param = p, !.w0 = writeSeq]

\* Redis: the request arrives; loadTokens issues KEYS, which lists the keys
\* in some order
GetTokenStart(r, p, ok) ==
  /\ backend = "redis"
  /\ r = started + 1
  /\ started' = r
  /\ Faults(<<ok>>)
  /\ \E order \in Orders(DOMAIN redisKV) :
       LET rq == Seen(StartReq(p), ok) IN
       req' = [req EXCEPT ![r] =
                 IF ~ok \/ Len(order) = 0
                 THEN AfterLoad(rq, <<>>)
                 ELSE [rq EXCEPT !.pc = "loadGet", !.keys = order]]
  /\ UNCHANGED <<backend, API_SECRET, api, now, ticks, tokensFile, redisKV, minted,
                 cbStarted, cb, deletes, writeSeq, lastWriter, calls, call>>

\* Redis: loadTokens gets one key
LoadGet(r, ok) ==
  /\ backend = "redis"
  /\ req[r].pc = "loadGet"
  /\ Faults(<<ok>>)
  /\ LET rq    == Seen(req[r], ok)
         key   == Head(rq.keys)
         users == IF key \in DOMAIN redisKV
                  THEN Append(rq.users, UserOfKey(key))
                  ELSE rq.users
     IN req' = [req EXCEPT ![r] =
                  IF ~ok THEN AfterLoad(rq, <<>>)
                  ELSE IF Len(rq.keys) = 1 THEN AfterLoad(rq, users)
                  ELSE [rq EXCEPT !.keys = Tail(@), !.users = users]]
  /\ UNCHANGED <<backend, API_SECRET, api, now, ticks, tokensFile, redisKV, minted, started,
                 cbStarted, cb, deletes, writeSeq, lastWriter, calls, call>>

\* Redis: the handler's getTokens(username)
GetTokens(r, ok) ==
  /\ backend = "redis"
  /\ req[r].pc = "get"
  /\ Faults(<<ok>>)
  /\ LET rq == Seen(req[r], ok) IN
     req' = [req EXCEPT ![r] =
               AfterGet(rq, getTokens_redis(redisKV, rq.username, ok))]
  /\ UNCHANGED <<backend, API_SECRET, api, now, ticks, tokensFile, redisKV, minted, started,
                 cbStarted, cb, deletes, writeSeq, lastWriter, calls, call>>

\* Redis: isTokenExpired(username), which reads the record again
IsExpired(r, ok) ==
  /\ backend = "redis"
  /\ req[r].pc = "expired"
  /\ Faults(<<ok>>)
  /\ LET rq == Seen(req[r], ok) IN
     req' = [req EXCEPT ![r] =
               AfterExpired(rq, getTokens_redis(redisKV, rq.username, ok))]
  /\ UNCHANGED <<backend, API_SECRET, api, now, ticks, tokensFile, redisKV, minted, started,
                 cbStarted, cb, deletes, writeSeq, lastWriter, calls, call>>

\* the provider's answers to a refresh: a new access token, a body without
\* access_token, or a rejected promise
RefreshOutcomes == {"token", "error", "throw"}

RefreshData(outcome, expiresIn) ==
  IF outcome = "token"
  THEN [access_token |-> minted + 1, expires_in |-> expiresIn]
  ELSE NoData

\* mutant: updateAccessToken is not awaited, the response leaves with the
\* provider's answer and the update goes on behind it
Refreshed_NoAwait(r, outcome, expiresIn) ==
  /\ backend = "redis"
  /\ req[r].pc = "refresh"
  /\ minted' = IF outcome = "token" THEN minted + 1 ELSE minted
  /\ LET rq   == Step(Seen(req[r], TRUE), "refresh")
         data == RefreshData(outcome, expiresIn)
     IN req' = [req EXCEPT ![r] =
               IF outcome = "throw"
               THEN Answer(rq, 500, Undefined, FALSE)
               ELSE [Answer(rq, 200, data.access_token, TRUE) EXCEPT
                       !.pc = "updRead", !.data = data]]
  /\ UNCHANGED <<backend, API_SECRET, api, now, ticks, tokensFile, redisKV, started,
                 cbStarted, cb, deletes, faults, writeSeq, lastWriter, calls, call>>

\* Redis: the provider answers; updateAccessToken issues its getTokens
Refreshed(r, outcome, expiresIn) ==
  /\ backend = "redis"
  /\ req[r].pc = "refresh"
  /\ minted' = IF outcome = "token" THEN minted + 1 ELSE minted
  /\ LET rq == Step(Seen(req[r], TRUE), "refresh") IN
     req' = [req EXCEPT ![r] =
               IF outcome = "throw"
               THEN Answer(rq, 500, Undefined, FALSE)
               ELSE [rq EXCEPT !.pc = "updRead",
                               !.data = RefreshData(outcome, expiresIn)]]
  /\ UNCHANGED <<backend, API_SECRET, api, now, ticks, tokensFile, redisKV, started,
                 cbStarted, cb, deletes, faults, writeSeq, lastWriter, calls, call>>

\* Redis: updateAccessToken reads the record and builds the new one
UpdRead(r, ok) ==
  /\ backend = "redis"
  /\ req[r].pc = "updRead"
  /\ Faults(<<ok>>)
  /\ LET rq     == Seen(req[r], ok)
         tokens == getTokens_redis(redisKV, rq.username, ok)
     IN req' = [req EXCEPT ![r] =
          IF tokens = None
          THEN Answer(rq, 200, rq.data.access_token, TRUE)
          ELSE [rq EXCEPT !.pc = "updWrite",
                          !.updRec = tokens,
                          !.updTime = now,
                          !.upd = Some(UpdatedRecord(tokens[1], rq.data.access_token,
                                                     rq.data.expires_in, now))]]
  /\ UNCHANGED <<backend, API_SECRET, api, now, ticks, tokensFile, redisKV, minted, started,
                 cbStarted, cb, deletes, writeSeq, lastWriter, calls, call>>

\* mutant: a failed SET is swallowed
UpdWrite_Swallows(r, ok) ==
  /\ backend = "redis"
  /\ req[r].pc = "updWrite"
  /\ Faults(<<ok>>)
  /\ LET rq == Seen(req[r], ok)
         kv == RedisSet(redisKV, RedisKey(rq.username), JSONstringify(rq.upd[1]))
     IN IF ok
        THEN /\ redisKV' = kv
             /\ writeSeq' = writeSeq + 1
             /\ lastWriter' = r
             /\ req' = [req EXCEPT ![r] =
                          Respond([Step(rq, "write") EXCEPT !.writes = @ + 1], 200,
                                  rq.data.access_token, TRUE,
                                  tokensFile, kv, writeSeq + 1)]
        ELSE /\ UNCHANGED <<redisKV, writeSeq, lastWriter>>
             /\ req' = [req EXCEPT ![r] = Answer([rq EXCEPT !.writeFailed = TRUE],
                                                 200, rq.data.access_token, TRUE)]
  /\ UNCHANGED <<backend, API_SECRET, api, now, ticks, tokensFile, minted, started,
                 cbStarted, cb, deletes, calls, call>>

\* mutant: a failed SET is not caught and no response is sent
UpdWrite_Hangs(r, ok) ==
  /\ backend = "redis"
  /\ req[r].pc = "updWrite"
  /\ Faults(<<ok>>)
  /\ LET rq == Seen(req[r], ok)
         kv == RedisSet(redisKV, RedisKey(rq.username), JSONstringify(rq.upd[1]))
     IN IF ok
        THEN /\ redisKV' = kv
             /\ writeSeq' = writeSeq + 1
             /\ lastWriter' = r
             /\ req' = [req EXCEPT ![r] =
                          Respond([Step(rq, "write") EXCEPT !.writes = @ + 1], 200,
                                  rq.data.access_token, TRUE,
                                  tokensFile, kv, writeSeq + 1)]
        ELSE /\ UNCHANGED <<redisKV, writeSeq, lastWriter>>
             /\ req' = [req EXCEPT ![r] = [rq EXCEPT !.pc = "thrown",
                                                     !.writeFailed = TRUE]]
  /\ UNCHANGED <<backend, API_SECRET, api, now, ticks, tokensFile, minted, started,
                 cbStarted, cb, deletes, calls, call>>

\* Redis: the SET of updateAccessToken
UpdWrite(r, ok) ==
  /\ backend = "redis"
  /\ req[r].pc = "updWrite"
  /\ Faults(<<ok>>)
  /\ LET rq == Seen(req[r], ok)
         kv == RedisSet(redisKV, RedisKey(rq.username), JSONstringify(rq.upd[1]))
     IN IF ok
        THEN /\ redisKV' = kv
             /\ writeSeq' = writeSeq + 1
             /\ lastWriter' = r
             /\ req' = [req EXCEPT ![r] =
                          Respond([Step(rq, "write") EXCEPT !.writes = @ + 1], 200,
                                  rq.data.access_token, TRUE,
                                  tokensFile, kv, writeSeq + 1)]
        ELSE /\ UNCHANGED <<redisKV, writeSeq, lastWriter>>
             /\ req' = [req EXCEPT ![r] = Answer([rq EXCEPT !.writeFailed = TRUE],
                                                 500, Undefined, FALSE)]
  /\ UNCHANGED <<backend, API_SECRET, api, now, ticks, tokensFile, minted, started,
                 cbStarted, cb, deletes, calls, call>>

\* File: the handler runs to its first await in one piece: loadTokens,
\* getTokens and isTokenExpired each read tokens.json
GetTokenFile(r, p, ok1, ok2, ok3) ==
  /\ backend = "file"
  /\ r = started + 1
  /\ started' = r
  /\ LET rq0 == Seen(StartReq(p), ok1)
         rq1 == AfterLoad(rq0, Keys(loadTokens_file(tokensFile, ok1)))
         rq2 == IF rq1.pc = "get"
                THEN AfterGet(Seen(rq1, ok2),
                              getTokens_file(tokensFile, rq1.username, ok2))
                ELSE rq1
         rq3 == IF rq2.pc = "expired"
                THEN AfterExpired(Seen(rq2, ok3),
                                  getTokens_file(tokensFile, rq2.username, ok3))
                ELSE rq2
     IN /\ req' = [req EXCEPT ![r] = rq3]
        \* a read the handler does not reach cannot fail
        /\ rq1.pc # "get" => ok2
        /\ rq2.pc # "expired" => ok3
  /\ Faults(<<ok1, ok2, ok3>>)
  /\ UNCHANGED <<backend, API_SECRET, api, now, ticks, tokensFile, redisKV, minted,
                 cbStarted, cb, deletes, writeSeq, lastWriter, calls, call>>

\* File: the provider answers; updateAccessToken and the response follow in
\* one piece
RefreshedFile(r, outcome, expiresIn, readOk, writeOk) ==
  /\ backend = "file"
  /\ req[r].pc = "refresh"
  /\ minted' = IF outcome = "token" THEN minted + 1 ELSE minted
  /\ LET data   == RefreshData(outcome, expiresIn)
         writes == updateWrites_file(tokensFile, req[r].username, readOk)
         rq     == [Step(Seen(req[r], readOk /\ writeOk), "refresh") EXCEPT
                      !.data = data]
         file   == updateAccessToken_file(tokensFile, rq.username,
                                          data.access_token, data.expires_in,
                                          now, readOk)
         rqw    == [rq EXCEPT !.updRec = getTokens_file(tokensFile, rq.username, readOk),
                              !.updTime = now]
     IN \* a call updateAccessToken does not reach cannot fail
        /\ outcome = "throw" => readOk
        /\ (outcome = "throw" \/ ~writes) => writeOk
        /\ IF outcome = "throw"
           THEN /\ UNCHANGED <<tokensFile, writeSeq, lastWriter>>
                /\ req' = [req EXCEPT ![r] = Answer(rq, 500, Undefined, FALSE)]
           ELSE IF ~writes
           THEN /\ UNCHANGED <<tokensFile, writeSeq, lastWriter>>
                /\ req' = [req EXCEPT ![r] = Answer(rq, 200, data.access_token, TRUE)]
           ELSE IF writeOk
           THEN /\ tokensFile' = file
                /\ writeSeq' = writeSeq + 1
                /\ lastWriter' = r
                /\ req' = [req EXCEPT ![r] =
                             Respond([Step(rqw, "write") EXCEPT !.writes = @ + 1], 200,
                                     data.access_token, TRUE,
                                     file, redisKV, writeSeq + 1)]
           ELSE /\ UNCHANGED <<tokensFile, writeSeq, lastWriter>>
                /\ req' = [req EXCEPT ![r] = Answer([rqw EXCEPT !.writeFailed = TRUE],
                                                    500, Undefined, FALSE)]
  /\ Faults(<<readOk, writeOk>>)
  /\ UNCHANGED <<backend, API_SECRET, api, now, ticks, redisKV, started,
                 cbStarted, cb, deletes, calls, call>>

----------------------------------------------------------------------------
(* GET /auth/callback *)

\* the callback answers with `status`
CbRespond(c, status, file, kv) ==
  [c EXCEPT !.pc = "done", !.rec = None, !.status = status,
            !.stored = StoredIn(file, kv, c.username)]

\* mutant: an error parameter next to a code is not looked at
CallbackStart_IgnoresError(code, error) ==
  /\ ~InFlight(cb)
  /\ cbStarted < MaxCallbacks
  /\ cbStarted' = cbStarted + 1
  /\ LET c == [CbIdle EXCEPT !.code = code, !.error = error] IN
     cb' = IF ~code
           THEN CbRespond(c, 400, tokensFile, redisKV)
           ELSE [c EXCEPT !.pc = "exchange"]
  /\ UNCHANGED <<backend, API_SECRET, api, now, ticks, tokensFile, redisKV, minted, started, req,
                 deletes, faults, writeSeq, lastWriter, calls, call>>

\* the request arrives with its query; `error` and a missing `code` end it
CallbackStart(code, error) ==
  /\ ~InFlight(cb)
  /\ cbStarted < MaxCallbacks
  /\ cbStarted' = cbStarted + 1
  /\ LET c == [CbIdle EXCEPT !.code = code, !.error = error] IN
     cb' = IF error \/ ~code
           THEN CbRespond(c, 400, tokensFile, redisKV)
           ELSE [c EXCEPT !.pc = "exchange"]
  /\ UNCHANGED <<backend, API_SECRET, api, now, ticks, tokensFile, redisKV, minted, started, req,
                 deletes, faults, writeSeq, lastWriter, calls, call>>

\* the provider's answers to a code exchange: a token pair, a body that lacks
\* one of the two tokens, or a rejected promise
ExchangeOutcomes == {"tokens", "noAccess", "noRefresh", "throw"}

ExchangeData(outcome, expiresIn) ==
  [access_token  |-> IF outcome \in {"tokens", "noRefresh"}
                     THEN minted + 1 ELSE Undefined,
   refresh_token |-> IF outcome \in {"tokens", "noAccess"}
                     THEN minted + 2 ELSE Undefined,
   expires_in    |-> IF outcome = "tokens" THEN expiresIn ELSE Undefined]

\* mutant: the handler goes on without `if (!access_token || !refresh_token)`
CallbackExchange_Unchecked(outcome, expiresIn) ==
  /\ cb.pc = "exchange"
  /\ LET tokenData == ExchangeData(outcome, expiresIn)
         bad == outcome = "throw"
     IN /\ minted' = IF bad THEN minted ELSE minted + 2
        /\ cb' = IF bad
                 THEN CbRespond([cb EXCEPT !.exchanged = TRUE], 500, tokensFile, redisKV)
                 ELSE [cb EXCEPT !.pc = "identity", !.tokenData = tokenData,
                                 !.exchanged = TRUE]
  /\ UNCHANGED <<backend, API_SECRET, api, now, ticks, tokensFile, redisKV, started, req,
                 cbStarted, deletes, faults, writeSeq, lastWriter, calls, call>>

\* the provider answers the exchange; the handler checks the pair and calls
\* getEbayUsername
CallbackExchange(outcome, expiresIn) ==
  /\ cb.pc = "exchange"
  /\ LET tokenData == ExchangeData(outcome, expiresIn)
         bad == outcome = "throw"
                \/ ~Truthy(tokenData.access_token)
                \/ ~Truthy(tokenData.refresh_token)
     IN /\ minted' = IF bad THEN minted ELSE minted + 2
        /\ cb' = IF bad
                 THEN CbRespond([cb EXCEPT !.exchanged = TRUE,
                                           !.tokenData = IF outcome = "throw" THEN @
                                                         ELSE tokenData],
                                500, tokensFile, redisKV)
                 ELSE [cb EXCEPT !.pc = "identity", !.tokenData = tokenData,
                                 !.exchanged = TRUE]
  /\ UNCHANGED <<backend, API_SECRET, api, now, ticks, tokensFile, redisKV, started, req,
                 cbStarted, deletes, faults, writeSeq, lastWriter, calls, call>>

\* the identity endpoint's answers: a user name, or a failure
IdentityOutcomes == Names \cup {"fail"}

\* mutant: the name the identity endpoint gave is not used
Username_AlwaysSynthetic(outcome, t) == SyntheticUser(t)

\* the username the handler saves under
Username(outcome, t) ==
  IF outcome = "fail" THEN SyntheticUser(t) ELSE UserId(outcome)

\* Redis: the identity endpoint answers; saveTokens builds the record and
\* issues its SET
CallbackIdentity(outcome) ==
  /\ backend = "redis"
  /\ cb.pc = "identity"
  /\ LET username == Username(outcome, now) IN
     cb' = [cb EXCEPT !.pc = "save",
                      !.username = username,
                      !.saveTime = now,
                      !.identified = TRUE,
                      !.fellBack = (outcome = "fail"),
                      !.rec = Some(NewRecord(username, cb.tokenData.access_token,
                                             cb.tokenData.refresh_token,
                                             cb.tokenData.expires_in, now))]
  /\ UNCHANGED <<backend, API_SECRET, api, now, ticks, tokensFile, redisKV, minted, started, req,
                 cbStarted, deletes, faults, writeSeq, lastWriter, calls, call>>

\* Redis: the SET of saveTokens
CallbackSave(ok) ==
  /\ backend = "redis"
  /\ cb.pc = "save"
  /\ Faults(<<ok>>)
  /\ LET kv == RedisSet(redisKV, RedisKey(cb.username), JSONstringify(cb.rec[1])) IN
     IF ok
     THEN /\ redisKV' = kv
          /\ writeSeq' = writeSeq + 1
          /\ lastWriter' = 0
          /\ cb' = CbRespond([cb EXCEPT !.wrote = TRUE, !.seq = writeSeq + 1,
                                        !.preKV = redisKV, !.postKV = kv],
                             200, tokensFile, kv)
     ELSE /\ UNCHANGED <<redisKV, writeSeq, lastWriter>>
          /\ cb' = CbRespond([cb EXCEPT !.writeFailed = TRUE], 500, tokensFile, redisKV)
  /\ UNCHANGED <<backend, API_SECRET, api, now, ticks, tokensFile, minted, started, req,
                 cbStarted, deletes, calls, call>>

\* File: the identity endpoint answers; saveTokens and the response follow in
\* one piece
CallbackIdentityFile(outcome, readOk, writeOk) ==
  /\ backend = "file"
  /\ cb.pc = "identity"
  /\ Faults(<<readOk, writeOk>>)
  /\ LET username == Username(outcome, now)
         c        == [cb EXCEPT !.username = username, !.saveTime = now,
                                !.identified = TRUE,
                                !.fellBack = (outcome = "fail"),
                                !.readFailed = ~readOk]
         file     == saveTokens_file(tokensFile, username,
                                     cb.tokenData.access_token,
                                     cb.tokenData.refresh_token,
                                     cb.tokenData.expires_in, now, readOk)
     IN IF writeOk
        THEN /\ tokensFile' = file
             /\ writeSeq' = writeSeq + 1
             /\ lastWriter' = 0
             /\ cb' = CbRespond([c EXCEPT !.wrote = TRUE, !.seq = writeSeq + 1,
                                          !.preFile = tokensFile,
                                          !.postFile = file],
                                200, file, redisKV)
        ELSE /\ UNCHANGED <<tokensFile, writeSeq, lastWriter>>
             /\ cb' = CbRespond([c EXCEPT !.writeFailed = TRUE], 500, tokensFile, redisKV)
  /\ UNCHANGED <<backend, API_SECRET, api, now, ticks, redisKV, minted, started, req,
                 cbStarted, deletes, calls, call>>

----------------------------------------------------------------------------
(* DELETE /api/tokens/:username (Redis) *)

\* history: deleteTokens(userId) was called, its DEL done (ok) as store
\* write number seq, or failed
Deleted(userId, ok) ==
  [userId |-> userId, ok |-> ok, seq |-> IF ok THEN writeSeq + 1 ELSE 0]

\* mutant: every key is deleted
deleteTokens_Flush(kv, userId) == <<>>

deleteTokens(kv, userId) == RedisDel(kv, RedisKey(userId))

DeleteToken(userId, ok) ==
  /\ backend = "redis"
  /\ Len(deletes) < MaxDeletes
  /\ deletes' = Append(deletes, Deleted(userId, ok))
  /\ Faults(<<ok>>)
  /\ IF ok
     THEN /\ redisKV' = deleteTokens(redisKV, userId)
          /\ writeSeq' = writeSeq + 1
          /\ lastWriter' = 0
     ELSE UNCHANGED <<redisKV, writeSeq, lastWriter>>
  /\ UNCHANGED <<backend, API_SECRET, api, now, ticks, tokensFile, minted, started, req,
                 cbStarted, cb, calls, call>>

----------------------------------------------------------------------------
(* The server *)

Params == Users \cup {NoUser}

Next ==
  \/ \E d \in TickSet : Tick(d)
  \/ \E r \in ReqIds, p \in Params, ok \in BOOLEAN : GetTokenStart(r, p, ok)
  \/ \E r \in ReqIds, ok \in BOOLEAN : LoadGet(r, ok)
  \/ \E r \in ReqIds, ok \in BOOLEAN : GetTokens(r, ok)
  \/ \E r \in ReqIds, ok \in BOOLEAN : IsExpired(r, ok)
  \/ \E r \in ReqIds, o \in RefreshOutcomes, e \in ExpiresInSet : Refreshed(r, o, e)
  \/ \E r \in ReqIds, ok \in BOOLEAN : UpdRead(r, ok)
  \/ \E r \in ReqIds, ok \in BOOLEAN : UpdWrite(r, ok)
  \/ \E r \in ReqIds, p \in Params, ok1, ok2, ok3 \in BOOLEAN :
       GetTokenFile(r, p, ok1, ok2, ok3)
  \/ \E r \in ReqIds, o \in RefreshOutcomes, e \in ExpiresInSet,
        readOk, writeOk \in BOOLEAN : RefreshedFile(r, o, e, readOk, writeOk)
  \/ \E code, error \in BOOLEAN : CallbackStart(code, error)
  \/ \E o \in ExchangeOutcomes, e \in ExpiresInSet : CallbackExchange(o, e)
  \/ \E o \in IdentityOutcomes : CallbackIdentity(o)
  \/ \E ok \in BOOLEAN : CallbackSave(ok)
  \/ \E o \in IdentityOutcomes, readOk, writeOk \in BOOLEAN :
       CallbackIdentityFile(o, readOk, writeOk)
  \/ \E u \in Users, ok \in BOOLEAN : DeleteToken(u, ok)

Spec == Init /\ [][Next]_vars

----------------------------------------------------------------------------
(* Properties of get-token *)

Done(r) == req[r].pc = "done"

\* the Fresh state of the specification: now < expiresAt - REFRESH_SKEW
Fresh(rec, t) == rec.expiresAt >= 0 /\ t < rec.expiresAt - RefreshSkew

\* isTokenExpired ran on a stored record that was Fresh / Stale
ClassifiedFresh(r) ==
  req[r].chkRec # None /\ Fresh(req[r].chkRec[1], req[r].chkTime)
ClassifiedStale(r) ==
  req[r].chkRec # None /\ ~Fresh(req[r].chkRec[1], req[r].chkTime)

\* every store write between the arrival of r and its response was its own
RanAlone(r) == req[r].wEnd = req[r].w0 + req[r].writes

\* the provider answered the refresh of r with a new access token
GotToken(r) == req[r].data.access_token # Undefined

C2_FreshIsServedFromStore ==
  \A r \in ReqIds :
    (Done(r) /\ ClassifiedFresh(r))
      => /\ req[r].res = [status |-> 200,
                          accessToken |-> req[r].chkRec[1].accessToken,
                          refreshed |-> FALSE]
         /\ req[r].refreshCalls = 0
         /\ req[r].writes = 0

Persisted(r) ==
  Done(r) /\ req[r].res.refreshed /\ req[r].writes = 1 /\ GotToken(r)

\* C5 as claimed: the persisted expiresAt is the time of the refresh call
\* plus newExpiresIn*1000.
C5_ExpiresAtFromCallTime ==
  \A r \in ReqIds :
    Persisted(r)
      => req[r].stored[1].expiresAt
           = req[r].chkTime + req[r].data.expires_in * 1000

\* C5 as amended: the persisted expiresAt is Date.now() as read inside
\* updateAccessToken, after the provider's answer, plus newExpiresIn*1000; it
\* is never earlier than the time of the refresh call plus newExpiresIn*1000.
C5_ExpiresAtFromUpdateTime ==
  \A r \in ReqIds :
    Persisted(r)
      => /\ req[r].stored[1].expiresAt
              = req[r].updTime + req[r].data.expires_in * 1000
         /\ req[r].updTime >= req[r].chkTime

\* the clock advanced between the refresh call and updateAccessToken
C5_Witness ==
  \E r \in ReqIds : Persisted(r) /\ req[r].updTime > req[r].chkTime

\* C6: when the provider's refresh fails (it throws, or its answer carries no
\* access_token) the request answers with an error, never refreshed=true, and
\* writes nothing.
C6_FailedRefreshIsAnError ==
  \A r \in ReqIds :
    (Done(r) /\ req[r].refreshCalls = 1 /\ ~GotToken(r))
      => /\ req[r].res.status >= 400
         /\ ~req[r].res.refreshed
         /\ req[r].writes = 0

\* requests a and b are answered, both classified a Stale record of the same
\* user, neither met a store failure, the provider gave each a token, and
\* every store write since the earlier of them arrived is theirs
StalePair(a, b) ==
  /\ a # b
  /\ Done(a) /\ Done(b)
  /\ req[a].username = req[b].username
  /\ ClassifiedStale(a) /\ ClassifiedStale(b)
  /\ ~req[a].faulted /\ ~req[b].faulted
  /\ GotToken(a) /\ GotToken(b)
  /\ LET first == IF req[a].w0 <= req[b].w0 THEN req[a].w0 ELSE req[b].w0
     IN writeSeq = first + req[a].writes + req[b].writes

\* C7: two get-token requests for one user that both see a Stale record each
\* refresh and write once; afterwards the record keeps its refresh token and
\* userId, holds the token of the later write, and each response carries the
\* token of its own refresh.
C7_ConcurrentRefreshLastWriteWins ==
  \A a, b \in ReqIds :
    StalePair(a, b)
      => LET rec == Stored(req[a].username) IN
         /\ req[a].refreshCalls = 1 /\ req[b].refreshCalls = 1
         /\ req[a].writes = 1 /\ req[b].writes = 1
         /\ req[a].res = [status |-> 200,
                          accessToken |-> req[a].data.access_token,
                          refreshed |-> TRUE]
         /\ req[a].data.access_token # req[b].data.access_token
         /\ rec # None
         /\ rec[1].refreshToken = req[a].chkRec[1].refreshToken
         /\ rec[1].refreshToken = req[b].chkRec[1].refreshToken
         /\ rec[1].userId = req[a].username
         /\ lastWriter \in {a, b}
         /\ rec[1].accessToken = req[lastWriter].data.access_token

\* the two requests overlapped: the one that arrived first wrote last
C7_Witness ==
  \E a, b \in ReqIds : StalePair(a, b) /\ a < b /\ lastWriter = a

\* C8: a token returned with refreshed=false is the access token of the
\* stored record that was classified Fresh for the request.
C8_UnrefreshedTokenIsTheFreshOne ==
  \A r \in ReqIds :
    (Done(r) /\ req[r].res.status = 200 /\ ~req[r].res.refreshed)
      => /\ ClassifiedFresh(r)
         /\ req[r].res.accessToken = req[r].chkRec[1].accessToken


\* C16: a failed store write is not dropped: a get-token request whose write
\* in updateAccessToken failed is answered 500, not refreshed=true, and a
\* callback whose write in saveTokens failed is answered 500, not success.
C16_WriteFailureIsAnError ==
  /\ \A r \in ReqIds :
       (Done(r) /\ req[r].writeFailed)
         => /\ req[r].res.status = 500
            /\ ~req[r].res.refreshed
            /\ req[r].writes = 0
  /\ (cb.pc = "done" /\ cb.writeFailed)
       => cb.status = 500 /\ ~cb.wrote

\* the write of a refreshed token failed and the request was answered
C16_Witness ==
  \E r \in ReqIds :
    /\ Done(r) /\ req[r].writeFailed
    /\ req[r].refreshCalls = 1
    /\ req[r].data.access_token # Undefined

\* C27: when a get-token request answers refreshed=true with an access
\* token, the store holds, at the moment the response is sent, a record for
\* the user with that access token; a failed read or a missing record inside
\* updateAccessToken does not end in refreshed=true.
C27_RefreshedMeansPersisted ==
  \A r \in ReqIds :
    (Done(r) /\ req[r].res.refreshed)
      => /\ req[r].stored # None
         /\ req[r].stored[1].accessToken = req[r].res.accessToken

\* the place of a step in the handler
StepRank(name) ==
  CASE name = "read" -> 1
    [] name = "classify" -> 2
    [] name = "refresh" -> 3
    [] name = "write" -> 4
    [] name = "respond" -> 5

HasStep(r, name) == \E i \in DOMAIN req[r].steps : req[r].steps[i] = name

\* C21: within one get-token request the steps happen in the order read
\* record, classify, provider's refresh response, store write, respond, each
\* at most once: the write comes after the provider's answer and before the
\* response, a step is never taken without the ones it depends on, nothing
\* follows the response, and a request whose store calls all succeeded
\* refreshes only a record that was Stale (or gone) when it was classified.
C21_StepsInOrder ==
  \A r \in ReqIds :
    LET steps == req[r].steps IN
    /\ \A i, j \in DOMAIN steps :
         i < j => StepRank(steps[i]) < StepRank(steps[j])
    /\ HasStep(r, "classify") => HasStep(r, "read")
    /\ HasStep(r, "refresh") => HasStep(r, "classify") /\ req[r].refreshCalls = 1
    /\ HasStep(r, "write") => HasStep(r, "refresh")
    /\ HasStep(r, "respond") <=> Done(r)
    /\ req[r].res.refreshed => Done(r)
    /\ (req[r].res.refreshed /\ req[r].writes > 0)
         => steps[Len(steps) - 1] = "write"
    /\ (HasStep(r, "refresh") /\ ~req[r].faulted) => ~ClassifiedFresh(r)

\* a request read a Stale record, got a new token from the provider, wrote it
\* and answered refreshed=true
C21_Witness ==
  \E r \in ReqIds :
    /\ req[r].steps = <<"read", "classify", "refresh", "write", "respond">>
    /\ req[r].res.refreshed
    /\ GotToken(r)

----------------------------------------------------------------------------
(* The tokenManager modules on their own: the exported functions called one  *)
(* after the other, each call made on the file-backed and on the Redis-backed *)
(* store.                                                                     *)

StoreUsers == {UserId("alice"), UserId("bob")}
StoreAccessTokens == {1, 2}
StoreRefreshTokens == {3, 4}
\* the (accessToken, expiresIn) pairs updateAccessToken is called with: a
\* refreshed token, or the undefined fields of an answer without access_token
StoreUpdates ==
  (StoreAccessTokens \X ExpiresInSet) \cup {<<Undefined, Undefined>>}

Remember(c) ==
  [op |-> c.op, userId |-> c.userId, accessToken |-> c.accessToken,
   refreshToken |-> c.refreshToken, expiresIn |-> c.expiresIn, time |-> c.time,
   fileThrew |-> c.fileThrew, redisThrew |-> c.redisThrew,
   fileHad  |-> HasKey(c.preFile, c.userId),
   redisHad |-> RedisKey(c.userId) \in DOMAIN c.preKV]

NewCall(op, userId) ==
  [NoCall EXCEPT !.op = op, !.userId = userId, !.time = now,
                 !.preFile = tokensFile, !.preKV = redisKV,
                 !.prev = Remember(call)]

InitStore ==
  /\ backend = "both"
  /\ InitCommon

\* saveTokens(userId, accessToken, refreshToken, expiresIn)
StoreSave(userId, accessToken, refreshToken, expiresIn, fileReadOk, fileWriteOk, redisWriteOk) ==
  /\ calls < MaxCalls
  /\ calls' = calls + 1
  /\ Faults(<<fileReadOk, fileWriteOk, redisWriteOk>>)
  /\ tokensFile' = IF fileWriteOk
                   THEN saveTokens_file(tokensFile, userId, accessToken,
                                        refreshToken, expiresIn, now, fileReadOk)
                   ELSE tokensFile
  /\ redisKV' = IF redisWriteOk
                THEN saveTokens_redis(redisKV, userId, accessToken,
                                      refreshToken, expiresIn, now)
                ELSE redisKV
  /\ call' = [NewCall("save", userId) EXCEPT
                !.accessToken = accessToken,
                !.refreshToken = refreshToken,
                !.expiresIn = expiresIn,
                !.fileReadOk = fileReadOk,
                !.fileWrote = fileWriteOk,
                !.redisWrote = redisWriteOk,
                !.fileThrew = ~fileWriteOk,
                !.redisThrew = ~redisWriteOk]
  /\ UNCHANGED <<backend, API_SECRET, api, now, ticks, minted, started, req, cbStarted, cb,
                 deletes, writeSeq, lastWriter>>

\* getTokens(userId)
StoreGet(userId, fileReadOk, redisReadOk) ==
  /\ calls < MaxCalls
  /\ calls' = calls + 1
  /\ Faults(<<fileReadOk, redisReadOk>>)
  /\ call' = [NewCall("get", userId) EXCEPT
                !.fileReadOk = fileReadOk,
                !.redisReadOk = redisReadOk,
                !.fileRes = getTokens_file(tokensFile, userId, fileReadOk),
                !.redisRes = getTokens_redis(redisKV, userId, redisReadOk)]
  /\ UNCHANGED <<backend, API_SECRET, api, now, ticks, tokensFile, redisKV, minted, started, req,
                 cbStarted, cb, deletes, writeSeq, lastWriter>>

\* updateAccessToken(userId, accessToken, expiresIn)
StoreUpdate(userId, accessToken, expiresIn, fileReadOk, fileWriteOk, redisReadOk, redisWriteOk) ==
  /\ calls < MaxCalls
  /\ calls' = calls + 1
  /\ Faults(<<fileReadOk, fileWriteOk, redisReadOk, redisWriteOk>>)
  /\ LET fileWrites  == updateWrites_file(tokensFile, userId, fileReadOk)
         redisWrites == updateWrites_redis(redisKV, userId, redisReadOk)
     IN \* a write the call does not reach cannot fail
        /\ ~fileWrites => fileWriteOk
        /\ ~redisWrites => redisWriteOk
        /\ tokensFile' = IF fileWrites /\ fileWriteOk
                         THEN updateAccessToken_file(tokensFile, userId, accessToken,
                                                     expiresIn, now, fileReadOk)
                         ELSE tokensFile
        /\ redisKV' = IF redisWriteOk
                      THEN updateAccessToken_redis(redisKV, userId, accessToken,
                                                   expiresIn, now, redisReadOk)
                      ELSE redisKV
        /\ call' = [NewCall("update", userId) EXCEPT
                      !.accessToken = accessToken,
                      !.expiresIn = expiresIn,
                      !.fileReadOk = fileReadOk,
                      !.redisReadOk = redisReadOk,
                      !.fileWrote = fileWrites /\ fileWriteOk,
                      !.redisWrote = redisWrites /\ redisWriteOk,
                      !.fileThrew = fileWrites /\ ~fileWriteOk,
                      !.redisThrew = redisWrites /\ ~redisWriteOk]
  /\ UNCHANGED <<backend, API_SECRET, api, now, ticks, minted, started, req, cbStarted, cb,
                 deletes, writeSeq, lastWriter>>

\* the object the Redis-backed loadTokens returns when nothing else runs:
\* KEYS, then a GET per key; any of them failing gives {}
loadTokens_redis(kv, readOk) ==
  IF readOk
  THEN [u \in {UserOfKey(k) : k \in DOMAIN kv} |-> JSONparse(kv[RedisKey(u)])]
  ELSE <<>>

\* loadTokens()
StoreLoad(fileReadOk, redisReadOk) ==
  /\ calls < MaxCalls
  /\ calls' = calls + 1
  /\ Faults(<<fileReadOk, redisReadOk>>)
  /\ call' = [NewCall("load", NoUser) EXCEPT
                !.fileReadOk = fileReadOk,
                !.redisReadOk = redisReadOk,
                !.fileLoad = loadTokens_file(tokensFile, fileReadOk),
                !.redisLoad = loadTokens_redis(redisKV, redisReadOk)]
  /\ UNCHANGED <<backend, API_SECRET, api, now, ticks, tokensFile, redisKV, minted, started, req,
                 cbStarted, cb, deletes, writeSeq, lastWriter>>

\* deleteTokens(userId): the Redis-backed module only, tokenManager.js has none
StoreDelete(userId, redisWriteOk) ==
  /\ calls < MaxCalls
  /\ calls' = calls + 1
  /\ Faults(<<redisWriteOk>>)
  /\ deletes' = Append(deletes, Deleted(userId, redisWriteOk))
  /\ redisKV' = IF redisWriteOk THEN deleteTokens(redisKV, userId) ELSE redisKV
  /\ call' = [NewCall("delete", userId) EXCEPT
                !.redisWrote = redisWriteOk,
                !.redisThrew = ~redisWriteOk]
  /\ UNCHANGED <<backend, API_SECRET, api, now, ticks, tokensFile, minted, started, req,
                 cbStarted, cb, writeSeq, lastWriter>>

NextStore ==
  \/ \E d \in TickSet : Tick(d)
  \/ \E fileReadOk, redisReadOk \in BOOLEAN : StoreLoad(fileReadOk, redisReadOk)
  \/ \E u \in StoreUsers, redisWriteOk \in BOOLEAN : StoreDelete(u, redisWriteOk)
  \/ \E u \in StoreUsers, a \in StoreAccessTokens, r \in StoreRefreshTokens,
        e \in ExpiresInSet, fileReadOk, fileWriteOk, redisWriteOk \in BOOLEAN :
       StoreSave(u, a, r, e, fileReadOk, fileWriteOk, redisWriteOk)
  \/ \E u \in StoreUsers, fileReadOk, redisReadOk \in BOOLEAN :
       StoreGet(u, fileReadOk, redisReadOk)
  \/ \E u \in StoreUsers, ae \in StoreUpdates,
        fileReadOk, fileWriteOk, redisReadOk, redisWriteOk \in BOOLEAN :
       StoreUpdate(u, ae[1], ae[2], fileReadOk, fileWriteOk, redisReadOk, redisWriteOk)

SpecStore == InitStore /\ [][NextStore]_vars

----------------------------------------------------------------------------
(* Properties of the token store *)

\* the users with a record in tokens.json / in the keyspace
FileUsers(file) == {file[i].key : i \in 1..Len(file)}
RedisUsers(kv) == {UserOfKey(k) : k \in DOMAIN kv}

\* the record of userId in tokens.json / in the keyspace
FileRec(file, userId) == getTokens_file(file, userId, TRUE)
RedisRec(kv, userId) == getTokens_redis(kv, userId, TRUE)

\* every record but userId's is the same in the two stores
SameButFile(f, g, userId) ==
  /\ FileUsers(f) \ {userId} = FileUsers(g) \ {userId}
  /\ \A v \in FileUsers(f) \ {userId} : FileRec(f, v) = FileRec(g, v)
SameButRedis(k, l, userId) ==
  /\ RedisUsers(k) \ {userId} = RedisUsers(l) \ {userId}
  /\ \A v \in RedisUsers(k) \ {userId} : RedisRec(k, v) = RedisRec(l, v)

\* rec is old with at most accessToken and expiresAt changed, to the values
\* the call gives them
OnlyTokenAndExpiry(old, rec, c) ==
  /\ rec # None
  /\ rec[1].refreshToken = old[1].refreshToken
  /\ rec[1].userId = old[1].userId
  /\ \/ rec = old
     \/ /\ rec[1].accessToken = c.accessToken
        /\ rec[1].expiresAt = JSONparse(JSONstringify(
                                 NewRecord(c.userId, 0, 0, c.expiresIn, c.time))).expiresAt

\* C4: updateAccessToken on an existing record changes only its accessToken
\* and expiresAt: refreshToken and userId stay, and no other user's record
\* changes, in the file-backed and in the Redis-backed store.
C4_UpdateKeepsRefreshTokenAndOthers ==
  call.op = "update" =>
    /\ HasKey(call.preFile, call.userId) =>
         /\ OnlyTokenAndExpiry(FileRec(call.preFile, call.userId),
                               FileRec(tokensFile, call.userId), call)
         /\ call.fileWrote => FileRec(tokensFile, call.userId)[1].accessToken
                                = call.accessToken
         /\ SameButFile(call.preFile, tokensFile, call.userId)
         /\ Keys(tokensFile) = Keys(call.preFile)
    /\ RedisRec(call.preKV, call.userId) # None =>
         /\ OnlyTokenAndExpiry(RedisRec(call.preKV, call.userId),
                               RedisRec(redisKV, call.userId), call)
         /\ call.redisWrote => RedisRec(redisKV, call.userId)[1].accessToken
                                 = call.accessToken
         /\ SameButRedis(call.preKV, redisKV, call.userId)

\* an update wrote a new access token while another user had a record
C4_Witness ==
  /\ call.op = "update"
  /\ call.fileWrote /\ call.redisWrote
  /\ call.accessToken # Undefined
  /\ FileRec(tokensFile, call.userId) # FileRec(call.preFile, call.userId)
  /\ RedisRec(redisKV, call.userId) # RedisRec(call.preKV, call.userId)
  /\ FileUsers(tokensFile) = StoreUsers
  /\ RedisUsers(redisKV) = StoreUsers

\* the record save(u, a, r, e) at time t stores
Saved(c) ==
  Some([accessToken  |-> c.accessToken,
        refreshToken |-> c.refreshToken,
        expiresAt    |-> c.time + c.expiresIn * 1000,
        userId       |-> c.userId])

\* C9: get(u) right after save(u, a, r, e) returns accessToken=a,
\* refreshToken=r, userId=u and expiresAt = time of the save + e*1000, and the
\* store holds exactly one record for u, also when u had a record before.
C9_SaveThenGet ==
  (call.op = "get" /\ call.prev.op = "save" /\ call.prev.userId = call.userId)
    => /\ (~call.prev.fileThrew /\ call.fileReadOk) =>
            /\ call.fileRes = Saved(call.prev)
            /\ Cardinality({i \in 1..Len(tokensFile) :
                              tokensFile[i].key = call.userId}) = 1
       /\ (~call.prev.redisThrew /\ call.redisReadOk) =>
            /\ call.redisRes = Saved(call.prev)
            /\ Cardinality({k \in DOMAIN redisKV :
                              UserOfKey(k) = call.userId}) = 1

\* a get followed a save that replaced an older record of the user
C9_Witness ==
  /\ call.op = "get" /\ call.prev.op = "save" /\ call.prev.userId = call.userId
  /\ call.prev.fileHad /\ call.prev.redisHad
  /\ call.fileRes # None /\ call.redisRes # None
  /\ call.prev.time > 0

C11_DeleteIsIdempotent ==
  /\ call.op = "delete" =>
       /\ call.redisThrew = ~call.redisWrote
       /\ call.redisWrote =>
            /\ RedisRec(redisKV, call.userId) = None
            /\ SameButRedis(call.preKV, redisKV, call.userId)
            /\ RedisRec(call.preKV, call.userId) = None => redisKV = call.preKV
            /\ (call.prev.op = "delete" /\ call.prev.userId = call.userId
                  /\ ~call.prev.redisThrew) => redisKV = call.preKV
       /\ ~call.redisWrote => redisKV = call.preKV
  /\ (call.op = "get" /\ call.prev.op = "delete" /\ call.prev.userId = call.userId
        /\ ~call.prev.redisThrew) => call.redisRes = None

\* the second of two deletes of a userId that had a record was done
C11_Witness ==
  /\ call.op = "delete" /\ call.redisWrote
  /\ call.prev.op = "delete" /\ call.prev.userId = call.userId
  /\ call.prev.redisHad /\ ~call.prev.redisThrew

\* C15: a record is removed only by a delete call for its userId: no save,
\* updateAccessToken, get or loadAll removes a record, a delete removes no
\* record but its userId's, and a record that has expired is still returned
\* by get.
C15_OnlyDeleteRemoves ==
  /\ call.op \in {"save", "update", "get", "load"} =>
       /\ FileUsers(call.preFile) \subseteq FileUsers(tokensFile)
       /\ RedisUsers(call.preKV) \subseteq RedisUsers(redisKV)
  /\ call.op = "delete" =>
       /\ tokensFile = call.preFile
       /\ RedisUsers(call.preKV) \ {call.userId} \subseteq RedisUsers(redisKV)
  /\ call.op = "get" =>
       /\ (call.fileReadOk /\ HasKey(tokensFile, call.userId)) => call.fileRes # None
       /\ (call.redisReadOk /\ call.userId \in RedisUsers(redisKV))
            => call.redisRes # None

C26_SaveKeepsOtherRecords ==
  call.op = "save"
    => /\ SameButFile(call.preFile, tokensFile, call.userId)
       /\ SameButRedis(call.preKV, redisKV, call.userId)

\* loadTokens of the two modules returned objects with the same userIds and
\* the same record for each
SameLoad(fileLoad, redisLoad) ==
  /\ {fileLoad[i].key : i \in 1..Len(fileLoad)} = DOMAIN redisLoad
  /\ \A u \in DOMAIN redisLoad : Prop(fileLoad, u) = Some(redisLoad[u])

\* no store call has failed and only loadTokens, getTokens, saveTokens and
\* updateAccessToken have been called
PlainCalls == faults = 0 /\ deletes = <<>>

----------------------------------------------------------------------------
(* The routes around get-token: the callback, the listings and the delete   *)
(* route, on a store that earlier runs have filled.                         *)

\* the users authorized by earlier runs, in the order they were saved
PriorSaves == {<<>>, <<"bob">>, <<"alice">>, <<"bob", "alice">>}

\* the access token an earlier run saved for name; its refresh token follows it
PriorToken(name) == IF name = "bob" THEN 91 ELSE 93
PriorExpiresIn == 7200

RECURSIVE PriorFile(_)
PriorFile(names) ==
  IF names = <<>> THEN <<>>
  ELSE LET name == names[Len(names)] IN
       saveTokens_file(PriorFile(SubSeq(names, 1, Len(names) - 1)), UserId(name),
                       PriorToken(name), PriorToken(name) + 1, PriorExpiresIn, 0, TRUE)

RECURSIVE PriorKV(_)
PriorKV(names) ==
  IF names = <<>> THEN <<>>
  ELSE LET name == names[Len(names)] IN
       saveTokens_redis(PriorKV(SubSeq(names, 1, Len(names) - 1)), UserId(name),
                        PriorToken(name), PriorToken(name) + 1, PriorExpiresIn, 0)

----------------------------------------------------------------------------
(* requireApiSecret and the routes behind it; GET /tokens *)

ProtectedRoutes == {"users", "get-token", "test", "tokens", "delete"}
PublicTokens == "public-tokens"
FileGetToken == "file-get-token"
SecretInputs == {Absent, "", Secret, WrongSecret}
RouteParams == {NoUser, UserId("alice"), UserId("bob")}

\* mutant: the supplied secret is not compared
requireApiSecret_NoCompare(header, query) ==
  LET providedSecret == IF TruthyStr(header) THEN header ELSE query IN
  IF ~TruthyStr(API_SECRET) THEN 500
  ELSE IF ~TruthyStr(providedSecret) THEN 401
  ELSE 0

\* the status requireApiSecret answers with, or 0 when it calls next()
requireApiSecret(header, query) ==
  LET providedSecret == IF TruthyStr(header) THEN header ELSE query IN
  IF ~TruthyStr(API_SECRET) THEN 500
  ELSE IF ~TruthyStr(providedSecret) THEN 401
  ELSE IF providedSecret # API_SECRET THEN 403
  ELSE 0

\* the object loadTokens returns, as the set of its [key, val] properties
LoadedTokens(ok) ==
  IF backend = "file"
  THEN LET tokens == loadTokens_file(tokensFile, ok) IN
       {tokens[i] : i \in 1..Len(tokens)}
  ELSE LET tokens == loadTokens_redis(redisKV, ok) IN
       {[key |-> u, val |-> tokens[u]] : u \in DOMAIN tokens}

\* Date.now() >= (expiresAt - 5 * 60 * 1000) on what a record holds: null
\* counts as 0, undefined makes the difference NaN
IsExpiredNow(expiresAt, t) ==
  IF expiresAt = Undefined THEN FALSE
  ELSE t >= (IF expiresAt = Null THEN 0 ELSE expiresAt) - RefreshSkew

\* a token as a response shows it: in full, or its first characters followed
\* by '...[hidden]' (a token is longer than the characters kept)
Shown(v) == [text |-> v, hidden |-> FALSE]
substring(v, n) == IF v = Undefined THEN Undefined ELSE v * 100 + n
Masked(v, n) == [text |-> substring(v, n), hidden |-> TRUE]

\* mutant: the entry carries the record's tokens too
UsersEntry_WithTokens(p, t) ==
  [username |-> p.key, expiresAt |-> p.val.expiresAt,
   isExpired |-> IsExpiredNow(p.val.expiresAt, t),
   accessToken |-> Shown(p.val.accessToken),
   refreshToken |-> Shown(p.val.refreshToken)]

\* GET /api/users: the entry of one user
UsersEntry(p, t) ==
  [username |-> p.key, expiresAt |-> p.val.expiresAt,
   isExpired |-> IsExpiredNow(p.val.expiresAt, t)]

\* res.json(tokens): the entry of one user
RawEntry(p) ==
  [username |-> p.key, userId |-> p.val.userId, expiresAt |-> p.val.expiresAt,
   accessToken |-> Shown(p.val.accessToken),
   refreshToken |-> Shown(p.val.refreshToken)]

\* maskedTokens[user]
MaskedEntry(p) ==
  [username |-> p.key, userId |-> p.val.userId, expiresAt |-> p.val.expiresAt,
   accessToken |-> Masked(p.val.accessToken, 30),
   refreshToken |-> Masked(p.val.refreshToken, 20)]

ApiInFlight == api.pc \notin {"idle", "done"}

\* a request arrives on `route`
ApiStart(route, header, query, html, param) ==
  [ApiIdle EXCEPT !.n = api.n + 1, !.route = route, !.header = header,
                  !.query = query, !.html = html, !.param = param,
                  !.preFile = tokensFile, !.preKV = redisKV]

ApiRespond(a, status, body) ==
  [a EXCEPT !.pc = "done", !.status = status, !.body = body]

\* the request is for a protected route; requireApiSecret answers it or lets
\* the handler run
Arrives(route, header, query) ==
  /\ backend = "redis"
  /\ api.n < MaxApiRequests
  /\ ~ApiInFlight
  /\ route \in ProtectedRoutes

\* GET /api/users
ApiUsers(header, query, ok) ==
  /\ Arrives("users", header, query)
  /\ LET a == ApiStart("users", header, query, FALSE, NoUser)
         denied == requireApiSecret(header, query)
     IN IF denied # 0
        THEN /\ ok
             /\ api' = ApiRespond(a, denied, {})
             /\ UNCHANGED faults
        ELSE /\ Faults(<<ok>>)
             /\ api' = ApiRespond([a EXCEPT !.reads = 1], 200,
                                  {UsersEntry(p, now) : p \in LoadedTokens(ok)})
  /\ UNCHANGED <<backend, API_SECRET, now, ticks, tokensFile, redisKV, minted,
                 started, req, cbStarted, cb, deletes, writeSeq, lastWriter,
                 calls, call>>

\* GET /api/tokens
ApiTokens(header, query, ok) ==
  /\ Arrives("tokens", header, query)
  /\ LET a == ApiStart("tokens", header, query, FALSE, NoUser)
         denied == requireApiSecret(header, query)
     IN IF denied # 0
        THEN /\ ok
             /\ api' = ApiRespond(a, denied, {})
             /\ UNCHANGED faults
        ELSE /\ Faults(<<ok>>)
             /\ api' = ApiRespond([a EXCEPT !.reads = 1], 200,
                                  {RawEntry(p) : p \in LoadedTokens(ok)})
  /\ UNCHANGED <<backend, API_SECRET, now, ticks, tokensFile, redisKV, minted,
                 started, req, cbStarted, cb, deletes, writeSeq, lastWriter,
                 calls, call>>

\* DELETE /api/tokens/:username
ApiDelete(header, query, param, ok) ==
  /\ Arrives("delete", header, query)
  /\ param # NoUser
  /\ LET a == ApiStart("delete", header, query, FALSE, param)
         denied == requireApiSecret(header, query)
     IN IF denied # 0
        THEN /\ ok
             /\ api' = ApiRespond(a, denied, {})
             /\ UNCHANGED <<faults, redisKV, writeSeq, lastWriter>>
        ELSE /\ Faults(<<ok>>)
             /\ IF ok
                THEN /\ redisKV' = deleteTokens(redisKV, param)
                     /\ writeSeq' = writeSeq + 1
                     /\ lastWriter' = 0
                     /\ api' = ApiRespond([a EXCEPT !.writes = 1], 200, {})
                ELSE /\ UNCHANGED <<redisKV, writeSeq, lastWriter>>
                     /\ api' = ApiRespond(a, 500, {})
  /\ UNCHANGED <<backend, API_SECRET, now, ticks, tokensFile, minted,
                 started, req, cbStarted, cb, deletes, calls, call>>

\* the sets of store calls, out of the first n of a handler, that can fail
FailSets(n) ==
  {F \in SUBSET (1..n) : faults + Cardinality(F) <= MaxFaults}

\* what a run of the get-token steps comes to; kv is the store it leaves
Ran(status, accessToken, refreshed, storeCalls, provider, wrote, kv, username) ==
  [status |-> status, accessToken |-> accessToken, refreshed |-> refreshed,
   storeCalls |-> storeCalls, provider |-> provider, wrote |-> wrote, kv |-> kv,
   username |-> username]

\* mutant: a request without :username is served the last user listed
RunGetToken_LastUser(kv, param, users, F, outcome, expiresIn, t) ==
  LET loaded == IF 1 \in F THEN <<>> ELSE users IN
  IF Len(loaded) = 0
  THEN Ran(404, Undefined, FALSE, 1, 0, FALSE, kv, NoUser)
  ELSE
    LET username == IF param # NoUser THEN param ELSE loaded[Len(loaded)]
        tokens   == getTokens_redis(kv, username, 2 \notin F)
        data     == RefreshData(outcome, expiresIn)
    IN IF tokens = None
       THEN Ran(404, Undefined, FALSE, 2, 0, FALSE, kv, username)
       ELSE IF ~isTokenExpired(getTokens_redis(kv, username, 3 \notin F), t)
       THEN Ran(200, tokens[1].accessToken, FALSE, 3, 0, FALSE, kv, username)
       ELSE IF outcome = "throw"
       THEN Ran(500, Undefined, FALSE, 3, 1, FALSE, kv, username)
       ELSE IF ~updateWrites_redis(kv, username, 4 \notin F)
       THEN Ran(200, data.access_token, TRUE, 4, 1, FALSE, kv, username)
       ELSE IF 5 \in F
       THEN Ran(500, Undefined, FALSE, 5, 1, FALSE, kv, username)
       ELSE Ran(200, data.access_token, TRUE, 5, 1, TRUE,
                updateAccessToken_redis(kv, username, data.access_token,
                                        data.expires_in, t, TRUE),
                username)

\* the steps that GET /api/get-token and GET /api/test share, run without
\* another request between them: loadTokens (store call 1), getTokens (2),
\* isTokenExpired (3), the refresh call, updateAccessToken's read (4) and
\* SET (5). `users` is Object.keys(allTokens), F the store calls that fail.
RunGetToken(kv, param, users, F, outcome, expiresIn, t) ==
  LET loaded == IF 1 \in F THEN <<>> ELSE users IN
  IF Len(loaded) = 0
  THEN Ran(404, Undefined, FALSE, 1, 0, FALSE, kv, NoUser)
  ELSE
    LET username == IF param # NoUser THEN param ELSE loaded[1]
        tokens   == getTokens_redis(kv, username, 2 \notin F)
        data     == RefreshData(outcome, expiresIn)
    IN IF tokens = None
       THEN Ran(404, Undefined, FALSE, 2, 0, FALSE, kv, username)
       ELSE IF ~isTokenExpired(getTokens_redis(kv, username, 3 \notin F), t)
       THEN Ran(200, tokens[1].accessToken, FALSE, 3, 0, FALSE, kv, username)
       ELSE IF outcome = "throw"
       THEN Ran(500, Undefined, FALSE, 3, 1, FALSE, kv, username)
       ELSE IF ~updateWrites_redis(kv, username, 4 \notin F)
       THEN Ran(200, data.access_token, TRUE, 4, 1, FALSE, kv, username)
       ELSE IF 5 \in F
       THEN Ran(500, Undefined, FALSE, 5, 1, FALSE, kv, username)
       ELSE Ran(200, data.access_token, TRUE, 5, 1, TRUE,
                updateAccessToken_redis(kv, username, data.access_token,
                                        data.expires_in, t, TRUE),
                username)

\* part_001 on tokenManager.js: the same steps, each store call a read or a
\* write of tokens.json
RunGetTokenFile(file, param, F, outcome, expiresIn, t) ==
  LET loaded == Keys(loadTokens_file(file, 1 \notin F)) IN
  IF Len(loaded) = 0
  THEN Ran(404, Undefined, FALSE, 1, 0, FALSE, file, NoUser)
  ELSE
    LET username == IF param # NoUser THEN param ELSE loaded[1]
        tokens   == getTokens_file(file, username, 2 \notin F)
        data     == RefreshData(outcome, expiresIn)
    IN IF tokens = None
       THEN Ran(404, Undefined, FALSE, 2, 0, FALSE, file, username)
       ELSE IF ~isTokenExpired(getTokens_file(file, username, 3 \notin F), t)
       THEN Ran(200, tokens[1].accessToken, FALSE, 3, 0, FALSE, file, username)
       ELSE IF outcome = "throw"
       THEN Ran(500, Undefined, FALSE, 3, 1, FALSE, file, username)
       ELSE IF ~updateWrites_file(file, username, 4 \notin F)
       THEN Ran(200, data.access_token, TRUE, 4, 1, FALSE, file, username)
       ELSE IF 5 \in F
       THEN Ran(500, Undefined, FALSE, 5, 1, FALSE, file, username)
       ELSE Ran(200, data.access_token, TRUE, 5, 1, TRUE,
                updateAccessToken_file(file, username, data.access_token,
                                       data.expires_in, t, TRUE),
                username)

\* the userId a request without :username stands for
FirstOr(param, users) ==
  IF param = NoUser /\ Len(users) > 0 THEN users[1] ELSE param

\* the failed store calls F are calls the run made
Reached(F, run) ==
  /\ Cardinality(F) <= run.storeCalls
  /\ \A i \in F : i <= run.storeCalls

\* the store and the counters after such a run
AfterRun(a, F, outcome, run) ==
  /\ Reached(F, run)
  /\ faults' = faults + Cardinality(F)
  /\ minted' = IF run.provider = 1 /\ outcome = "token" THEN minted + 1 ELSE minted
  /\ redisKV' = run.kv
  /\ writeSeq' = IF run.wrote THEN writeSeq + 1 ELSE writeSeq
  /\ lastWriter' = IF run.wrote THEN 0 ELSE lastWriter

\* GET /api/get-token/:username?
ApiGetToken(header, query, param) ==
  /\ Arrives("get-token", header, query)
  /\ LET a == ApiStart("get-token", header, query, FALSE, param)
         denied == requireApiSecret(header, query)
     IN IF denied # 0
        THEN /\ api' = ApiRespond(a, denied, {})
             /\ UNCHANGED <<faults, minted, redisKV, writeSeq, lastWriter>>
        ELSE \E users \in Orders(RedisUsers(redisKV)), F \in FailSets(5),
                o \in RefreshOutcomes, e \in ExpiresInSet :
               LET run == RunGetToken(redisKV, param, users, F, o, e, now) IN
               /\ AfterRun(a, F, o, run)
               /\ api' = ApiRespond(
                           [a EXCEPT !.reads = IF run.storeCalls = 5 THEN 4
                                               ELSE run.storeCalls,
                                     !.writes = IF run.storeCalls = 5 THEN 1 ELSE 0,
                                     !.provider = run.provider,
                                     !.first = FirstOr(NoUser, users),
                                     !.run = run,
                                     !.twin = RunGetToken(redisKV, FirstOr(param, users),
                                                          users, F, o, e, now)],
                           run.status,
                           IF run.status = 200
                           THEN {[username |-> run.username,
                                  accessToken |-> Shown(run.accessToken),
                                  refreshed |-> run.refreshed]}
                           ELSE {})
  /\ UNCHANGED <<backend, API_SECRET, now, ticks, tokensFile,
                 started, req, cbStarted, cb, deletes, calls, call>>

\* GET /api/get-token/:username? of part_001, which has no requireApiSecret
ApiGetTokenFile(param) ==
  /\ backend = "file"
  /\ api.n < MaxApiRequests
  /\ ~ApiInFlight
  /\ \E F \in FailSets(5), o \in RefreshOutcomes, e \in ExpiresInSet :
       LET a     == ApiStart(FileGetToken, Absent, Absent, FALSE, param)
           users == Keys(loadTokens_file(tokensFile, TRUE))
           run   == RunGetTokenFile(tokensFile, param, F, o, e, now)
       IN /\ Reached(F, run)
          /\ faults' = faults + Cardinality(F)
          /\ minted' = IF run.provider = 1 /\ o = "token" THEN minted + 1 ELSE minted
          /\ tokensFile' = run.kv
          /\ writeSeq' = IF run.wrote THEN writeSeq + 1 ELSE writeSeq
          /\ lastWriter' = IF run.wrote THEN 0 ELSE lastWriter
          /\ api' = ApiRespond(
                      [a EXCEPT !.reads = IF run.storeCalls = 5 THEN 4
                                          ELSE run.storeCalls,
                                !.writes = IF run.storeCalls = 5 THEN 1 ELSE 0,
                                !.provider = run.provider,
                                !.first = FirstOr(NoUser, users),
                                !.run = run,
                                !.twin = RunGetTokenFile(tokensFile,
                                                         FirstOr(param, users),
                                                         F, o, e, now)],
                      run.status,
                      IF run.status = 200
                      THEN {[username |-> run.username,
                             accessToken |-> Shown(run.accessToken),
                             refreshed |-> run.refreshed]}
                      ELSE {})
  /\ UNCHANGED <<backend, API_SECRET, now, ticks, redisKV,
                 started, req, cbStarted, cb, deletes, calls, call>>

\* GET /api/test/:username?: the same steps, then a call of the eBay API with
\* the access token
ApiTest(header, query, param) ==
  /\ Arrives("test", header, query)
  /\ LET a == ApiStart("test", header, query, FALSE, param)
         denied == requireApiSecret(header, query)
     IN IF denied # 0
        THEN /\ api' = ApiRespond(a, denied, {})
             /\ UNCHANGED <<faults, minted, redisKV, writeSeq, lastWriter>>
        ELSE \E users \in Orders(RedisUsers(redisKV)), F \in FailSets(5),
                o \in RefreshOutcomes, e \in ExpiresInSet, fetchOk \in BOOLEAN :
               LET run == RunGetToken(redisKV, param, users, F, o, e, now) IN
               /\ AfterRun(a, F, o, run)
               /\ run.status # 200 => fetchOk
               /\ api' = ApiRespond(
                           [a EXCEPT !.reads = IF run.storeCalls = 5 THEN 4
                                               ELSE run.storeCalls,
                                     !.writes = IF run.storeCalls = 5 THEN 1 ELSE 0,
                                     !.provider = run.provider
                                                  + IF run.status = 200 THEN 1 ELSE 0],
                           IF fetchOk THEN run.status ELSE 500,
                           IF run.status = 200 /\ fetchOk
                           THEN {[username |-> run.username,
                                  refreshed |-> run.refreshed]}
                           ELSE {})
  /\ UNCHANGED <<backend, API_SECRET, now, ticks, tokensFile,
                 started, req, cbStarted, cb, deletes, calls, call>>

\* GET /tokens of the servers without requireApiSecret: part_001 answers with
\* the stored object in its page and in its JSON, the public Vercel server
\* masks the page and answers JSON with the stored object
ApiPublicTokens(html, ok) ==
  /\ api.n < MaxApiRequests
  /\ ~ApiInFlight
  /\ Faults(<<ok>>)
  /\ LET a == ApiStart(PublicTokens, Absent, Absent, html, NoUser) IN
     api' = ApiRespond([a EXCEPT !.reads = 1], 200,
                       IF html /\ backend = "redis"
                       THEN {MaskedEntry(p) : p \in LoadedTokens(ok)}
                       ELSE {RawEntry(p) : p \in LoadedTokens(ok)})
  /\ UNCHANGED <<backend, API_SECRET, now, ticks, tokensFile, redisKV, minted,
                 started, req, cbStarted, cb, deletes, writeSeq, lastWriter,
                 calls, call>>

InitRoutes ==
  /\ backend \in {"file", "redis"}
  /\ API_SECRET \in {Absent, Secret}
  /\ InitLocals
  /\ \E names \in PriorSaves :
       /\ tokensFile = IF backend = "file" THEN PriorFile(names) ELSE <<>>
       /\ redisKV = IF backend = "redis" THEN PriorKV(names) ELSE <<>>

NextRoutes ==
  \/ \E d \in TickSet : Tick(d)
  \/ \E code, error \in BOOLEAN : CallbackStart(code, error)
  \/ \E o \in ExchangeOutcomes, e \in ExpiresInSet : CallbackExchange(o, e)
  \/ \E o \in IdentityOutcomes : CallbackIdentity(o)
  \/ \E ok \in BOOLEAN : CallbackSave(ok)
  \/ \E o \in IdentityOutcomes, readOk, writeOk \in BOOLEAN :
       CallbackIdentityFile(o, readOk, writeOk)
  \/ \E h, q \in SecretInputs, ok \in BOOLEAN : ApiUsers(h, q, ok)
  \/ \E h, q \in SecretInputs, ok \in BOOLEAN : ApiTokens(h, q, ok)
  \/ \E h, q \in SecretInputs, p \in RouteParams, ok \in BOOLEAN : ApiDelete(h, q, p, ok)
  \/ \E h, q \in SecretInputs, p \in RouteParams : ApiGetToken(h, q, p)
  \/ \E p \in RouteParams : ApiGetTokenFile(p)
  \/ \E h, q \in SecretInputs, p \in RouteParams : ApiTest(h, q, p)
  \/ \E html, ok \in BOOLEAN : ApiPublicTokens(html, ok)

SpecRoutes == InitRoutes /\ [][NextRoutes]_vars

----------------------------------------------------------------------------
(* Properties of the callback *)

CbDone == cb.pc = "done"

\* the users with a record, whatever the backend
StoreUsersIn(file, kv) ==
  IF backend = "file" THEN FileUsers(file) ELSE RedisUsers(kv)

\* the callback's saveTokens ran without a failing store call
CbSaved == CbDone /\ cb.identified /\ ~cb.readFailed /\ ~cb.writeFailed

\* the record the callback's saveTokens is to store
CbRecord ==
  Some([accessToken  |-> cb.tokenData.access_token,
        refreshToken |-> cb.tokenData.refresh_token,
        expiresAt    |-> cb.saveTime + cb.tokenData.expires_in * 1000,
        userId       |-> cb.username])

\* the callback's saveTokens left every record but username's as it was
CbOthersKept ==
  /\ StoreUsersIn(cb.postFile, cb.postKV) \ {cb.username}
       = StoreUsersIn(cb.preFile, cb.preKV) \ {cb.username}
  /\ \A u \in StoreUsersIn(cb.preFile, cb.preKV) \ {cb.username} :
       StoredIn(cb.postFile, cb.postKV, u) = StoredIn(cb.preFile, cb.preKV, u)

\* C12: a callback whose query carries `error` (with or without a code) or
\* carries no code is answered 400, without a call to the token or identity
\* endpoint and without a store write.
C12_DeniedCallbackIsClientError ==
  (CbDone /\ (cb.error \/ ~cb.code))
    => /\ cb.status = 400
       /\ ~cb.exchanged /\ ~cb.identified
       /\ ~cb.wrote /\ ~cb.writeFailed /\ ~cb.readFailed

\* a callback with both an error and a code was answered while the store
\* held records
C12_Witness ==
  /\ CbDone /\ cb.error /\ cb.code
  /\ StoreUsersIn(tokensFile, redisKV) # {}

\* C13: a callback whose exchange returned AT, RT and E and whose identity
\* lookup returned U, its store calls not failing, is answered with success
\* after the record {AT, RT, time of the save + E*1000, U} was written
\* under U, every other record left as it was; and no callback is answered
\* with success without a write.
C13_CallbackStoresTheRecord ==
  /\ (CbSaved /\ ~cb.fellBack)
       => /\ cb.status = 200
          /\ cb.wrote
          /\ cb.username \in Users
          /\ cb.stored = CbRecord
          /\ StoredIn(cb.postFile, cb.postKV, cb.username) = CbRecord
          /\ CbOthersKept
  /\ (CbDone /\ cb.status = 200) => cb.wrote

\* a callback for alice was answered with success; the store held a record
\* of bob and an older one of alice
C13_Witness ==
  /\ CbSaved /\ ~cb.fellBack /\ cb.status = 200
  /\ StoreUsersIn(cb.preFile, cb.preKV) = {UserId("alice"), UserId("bob")}
  /\ cb.saveTime > 0

\* C14: when the exchange succeeds and the identity lookup fails, the
\* callback saves the token pair under "user_" + the current timestamp and
\* answers with success (its store calls not failing).
C14_IdentityFailureFallsBack ==
  (CbDone /\ cb.identified /\ cb.fellBack)
    => /\ cb.username = <<"user_", cb.saveTime>>
       /\ (~cb.readFailed /\ ~cb.writeFailed)
            => /\ cb.status = 200
               /\ cb.wrote
               /\ cb.stored = CbRecord
               /\ CbOthersKept

\* the identity lookup failed some time after the server started, and the
\* callback was answered with success
C14_Witness ==
  /\ CbSaved /\ cb.fellBack /\ cb.status = 200
  /\ cb.saveTime > 0
  /\ StoreUsersIn(cb.preFile, cb.preKV) # {}

----------------------------------------------------------------------------
(* Properties of the routes *)

ApiDone == api.pc = "done"

\* the secret the request supplies: the header, or the query parameter when
\* there is no header
Supplied == IF TruthyStr(api.header) THEN api.header ELSE api.query

\* the token values of the records the store held when the request arrived
TokensOf(rec) == {rec[1].accessToken, rec[1].refreshToken} \ {Undefined}
StoredTokens ==
  UNION {TokensOf(StoredIn(api.preFile, api.preKV, u)) :
           u \in StoreUsersIn(api.preFile, api.preKV)}

\* C18: a request to a protected route (users, get-token, test, tokens,
\* delete) makes a store read, a store write or a provider call only if
\* API_SECRET is configured and the secret supplied in the X-API-Secret header
\* or the secret query parameter equals it; otherwise it ends 500 when
\* API_SECRET is not configured, 401 when no secret is supplied and 403 when
\* the supplied secret differs, and the store is as it was.
C18_ProtectedRoutesNeedTheSecret ==
  (ApiDone /\ api.route \in ProtectedRoutes) =>
    /\ (api.reads > 0 \/ api.writes > 0 \/ api.provider > 0)
         => /\ TruthyStr(API_SECRET)
            /\ Supplied = API_SECRET
    /\ ~TruthyStr(API_SECRET) => api.status = 500
    /\ (TruthyStr(API_SECRET) /\ ~TruthyStr(api.header) /\ ~TruthyStr(api.query))
         => api.status = 401
    /\ (TruthyStr(API_SECRET) /\ TruthyStr(Supplied) /\ Supplied # API_SECRET)
         => api.status = 403
    /\ (~TruthyStr(API_SECRET) \/ Supplied # API_SECRET)
         => /\ api.body = {}
            /\ api.reads = 0 /\ api.writes = 0 /\ api.provider = 0

\* a delete of a stored user came with a wrong secret and was refused
C18_Witness ==
  /\ ApiDone /\ api.route = "delete"
  /\ TruthyStr(API_SECRET) /\ Supplied = WrongSecret
  /\ api.status = 403
  /\ RedisRec(redisKV, api.param) # None

\* C19: every response of a list-tokens route that needs no secret shows the
\* access and refresh tokens in masked form only, never a stored value in
\* full.
C19_PublicListingMasksTokens ==
  (ApiDone /\ api.route = PublicTokens) =>
    \A e \in api.body :
      /\ e.accessToken.hidden /\ e.refreshToken.hidden
      /\ e.accessToken.text \notin StoredTokens
      /\ e.refreshToken.text \notin StoredTokens

\* C20: the list-users response has, for each stored userId, an entry with
\* username, expiresAt and isExpired only; no stored accessToken or
\* refreshToken value is in it.
C20_UsersListingHasNoTokens ==
  (ApiDone /\ api.route = "users" /\ api.status = 200) =>
    /\ \A e \in api.body :
         /\ DOMAIN e = {"username", "expiresAt", "isExpired"}
         /\ e.username \in RedisUsers(api.preKV)
         /\ e.expiresAt = RedisRec(api.preKV, e.username)[1].expiresAt
         /\ e.isExpired \in BOOLEAN
         /\ e.expiresAt \notin StoredTokens
    /\ {e.username : e \in api.body} \in {RedisUsers(api.preKV), {}}
    /\ api.writes = 0 /\ api.provider = 0

\* the users of a store with two records were listed, one of them expired
C20_Witness ==
  /\ ApiDone /\ api.route = "users" /\ api.status = 200
  /\ Cardinality(api.body) = 2
  /\ \E e \in api.body : e.isExpired
  /\ \E e \in api.body : ~e.isExpired

\* a get-token request whose handler ran (requireApiSecret let it through)
RanGetToken ==
  /\ ApiDone
  /\ api.route \in {"get-token", FileGetToken}
  /\ api.run # NoRun

\* C23: a get-token request without :username that arrives while the store
\* holds records does what the same request for the first userId of
\* Object.keys(loadTokens()) does: same status, same access token, same
\* refreshed flag, same store calls and same store afterwards; arriving while
\* the store is empty it is answered 404.
C23_NoUserIsFirstUser ==
  (RanGetToken /\ api.param = NoUser)
    => IF StoreUsersIn(api.preFile, api.preKV) # {}
       THEN /\ api.first # NoUser
            /\ api.run = api.twin
            /\ api.run.username \in {NoUser, api.first}
            /\ api.status = api.twin.status
       ELSE /\ api.status = 404
            /\ api.run.provider = 0
            /\ ~api.run.wrote

\* a request without :username was answered with the refreshed token of the
\* first of two stored users
C23_Witness ==
  /\ RanGetToken
  /\ faults = 0
  /\ api.param = NoUser
  /\ Cardinality(StoreUsersIn(api.preFile, api.preKV)) = 2
  /\ api.run.username = api.first
  /\ api.run.refreshed
  /\ api.run.wrote

----------------------------------------------------------------------------
(* Deletes and new authorizations while get-token requests are in flight *)

\* no saveTokens for the deleted userId was done after the delete d
NoSaveSince(d) == ~(cb.wrote /\ cb.username = d.userId /\ cb.seq > d.seq)

\* C24: once deleteTokens(u) has completed, and until a later saveTokens(u),
\* the store holds no record for u, whatever get-token requests for u were
\* in flight: an updateAccessToken that read the record before the delete
\* does not write it back.
C24_DeletedStaysAbsent ==
  \A i \in DOMAIN deletes :
    (deletes[i].ok /\ NoSaveSince(deletes[i]))
      => Stored(deletes[i].userId) = None

\* the Redis-backed server when alice authorized before: the store holds her
\* record when the run starts
InitRenew ==
  /\ backend = "redis"
  /\ API_SECRET = Secret
  /\ InitLocals
  /\ tokensFile = <<>>
  /\ redisKV = PriorKV(<<"alice">>)

\* one get-token request and one callback, in any interleaving of their steps
NextRenew ==
  \/ \E d \in TickSet : Tick(d)
  \/ \E p \in Params, ok \in BOOLEAN : GetTokenStart(1, p, ok)
  \/ \E ok \in BOOLEAN : LoadGet(1, ok)
  \/ \E ok \in BOOLEAN : GetTokens(1, ok)
  \/ \E ok \in BOOLEAN : IsExpired(1, ok)
  \/ \E o \in RefreshOutcomes, e \in ExpiresInSet : Refreshed(1, o, e)
  \/ \E ok \in BOOLEAN : UpdRead(1, ok)
  \/ \E ok \in BOOLEAN : UpdWrite(1, ok)
  \/ \E code, error \in BOOLEAN : CallbackStart(code, error)
  \/ \E o \in ExchangeOutcomes, e \in ExpiresInSet : CallbackExchange(o, e)
  \/ \E o \in IdentityOutcomes : CallbackIdentity(o)
  \/ \E ok \in BOOLEAN : CallbackSave(ok)

SpecRenew == InitRenew /\ [][NextRenew]_vars

\* C25: once the saveTokens of a new authorization has completed, the stored
\* record of that userId carries the refresh token of that authorization in
\* every later state, whatever updateAccessToken for the userId was in
\* flight: an update that read the record before the save does not write the
\* older refresh token back.
C25_NewRefreshTokenStays ==
  (cb.wrote /\ Stored(cb.username) # None)
    => Stored(cb.username)[1].refreshToken = cb.tokenData.refresh_token

----------------------------------------------------------------------------
(* The shape of the stored records *)

\* a record as saveTokens builds it from a complete provider answer
WellFormed(rec, userId) ==
  /\ rec.userId = userId
  /\ Truthy(rec.accessToken)
  /\ Truthy(rec.refreshToken)
  /\ rec.expiresAt >= 0

\* C28: every stored record is well formed in every reachable state: its
\* userId is the key it is stored under, its accessToken and refreshToken are
\* non-empty and its expiresAt is a number, whatever the provider answered to
\* the code exchange and to the refresh.
C28_StoredRecordsAreWellFormed ==
  \A u \in StoreUsersIn(tokensFile, redisKV) : WellFormed(Stored(u)[1], u)

----------------------------------------------------------------------------
(* The callback on an incomplete exchange response *)

\* the provider answered the exchange with a body that lacks access_token or
\* refresh_token
ExchangeLacksToken ==
  /\ cb.exchanged
  /\ \/ Truthy(cb.tokenData.access_token) /\ ~Truthy(cb.tokenData.refresh_token)
     \/ ~Truthy(cb.tokenData.access_token) /\ Truthy(cb.tokenData.refresh_token)

\* C29: when the provider's answer to the code exchange lacks access_token or
\* lacks refresh_token, the callback answers 500 at once, getEbayUsername is
\* not called and saveTokens is not called: the callback makes no store write
\* and the store is as it was when the answer arrived.
C29_IncompleteExchangeFails ==
  ExchangeLacksToken
    => /\ CbDone
       /\ cb.status = 500
       /\ ~cb.identified
       /\ ~cb.wrote /\ ~cb.writeFailed /\ ~cb.readFailed
       /\ cb.username = NoUser
       /\ cb.saveTime = Undefined

\* an exchange answer without access_token was answered 500 while the store
\* held records
C29_Witness ==
  /\ ExchangeLacksToken
  /\ ~Truthy(cb.tokenData.access_token)
  /\ CbDone
  /\ StoreUsersIn(tokensFile, redisKV) # {}

----------------------------------------------------------------------------
(* isTokenExpired on its own: called on stores that hold one record, or      *)
(* none, at times around expiresAt - REFRESH_SKEW                            *)

\* what the stored record has as expiresAt: nothing, null, 0, or a time
ExpiryValues == {Undefined, Null, 0, 1, 300000, 300001, 600000, 7200000}

\* Date.now() at the call
ExpiryTimes == {0, 1, 299999, 300000, 300001, 6899999, 6900000, 6900001}

ExpiryRecord(v) ==
  [userId |-> UserId("alice"), accessToken |-> 1, refreshToken |-> 3,
   expiresAt |-> v]

\* the file and the keyspace with these records
FileOf(recs) ==
  [i \in 1..Len(recs) |-> [key |-> recs[i].userId, val |-> JSONstringify(recs[i])]]
KVOf(recs) ==
  [k \in {RedisKey(recs[i].userId) : i \in 1..Len(recs)} |->
     JSONstringify(recs[CHOOSE i \in 1..Len(recs) : RedisKey(recs[i].userId) = k])]

InitExpiry ==
  /\ backend = "both"
  /\ API_SECRET = Secret
  /\ api = ApiIdle
  /\ now \in ExpiryTimes
  /\ ticks = 0
  /\ minted = 0
  /\ started = 0
  /\ req = [r \in ReqIds |-> ReqIdle]
  /\ cbStarted = 0
  /\ cb = CbIdle
  /\ deletes = <<>>
  /\ faults = 0
  /\ writeSeq = 0
  /\ lastWriter = 0
  /\ calls = 0
  /\ call = NoCall
  /\ \E recs \in {<<>>} \cup {<<ExpiryRecord(v)>> : v \in ExpiryValues} :
       /\ tokensFile = FileOf(recs)
       /\ redisKV = KVOf(recs)

\* isTokenExpired(userId)
StoreExpired(userId, fileReadOk, redisReadOk) ==
  /\ calls < MaxCalls
  /\ calls' = calls + 1
  /\ Faults(<<fileReadOk, redisReadOk>>)
  /\ call' = [NewCall("expired", userId) EXCEPT
                !.fileReadOk = fileReadOk,
                !.redisReadOk = redisReadOk,
                !.fileExpired =
                   isTokenExpired(getTokens_file(tokensFile, userId, fileReadOk), now),
                !.redisExpired =
                   isTokenExpired(getTokens_redis(redisKV, userId, redisReadOk), now)]
  /\ UNCHANGED <<backend, API_SECRET, api, now, ticks, tokensFile, redisKV, minted,
                 started, req, cbStarted, cb, deletes, writeSeq, lastWriter>>

NextExpiry ==
  \E u \in StoreUsers, fileReadOk, redisReadOk \in BOOLEAN :
    StoreExpired(u, fileReadOk, redisReadOk)

SpecExpiry == InitExpiry /\ [][NextExpiry]_vars

\* the Stale state of the specification for what getTokens returned: no
\* record, expiresAt missing (absent or null) or zero, or
\* now >= expiresAt - 300000
StaleAt(tokens, t) ==
  \/ tokens = None
  \/ tokens[1].expiresAt \in {Undefined, Null}
  \/ tokens[1].expiresAt = 0
  \/ tokens[1].expiresAt > 0 /\ t >= tokens[1].expiresAt - 300000

\* the call was made with Date.now() = expiresAt + d of the stored record
CalledAt(d) ==
  /\ call.op = "expired"
  /\ FileRec(call.preFile, call.userId) # None
  /\ RedisRec(call.preKV, call.userId) # None
  /\ FileRec(call.preFile, call.userId)[1].expiresAt > 0
  /\ call.time = FileRec(call.preFile, call.userId)[1].expiresAt + d

----------------------------------------------------------------------------
(* A get-token request after a refresh *)

\* request a refreshed the record with a token of the provider and wrote it;
\* request b, for the same userId, arrived after the response to a with no
\* store write between the two
Follows(a, b) ==
  /\ Done(a)
  /\ req[a].res.refreshed /\ GotToken(a) /\ req[a].writes = 1
  /\ req[b].pc # "idle"
  /\ req[b].param = req[a].username
  /\ req[b].w0 = req[a].wEnd

----------------------------------------------------------------------------
(* Every request is answered: one get-token request, one callback and one   *)
(* delete, on either server, where every store call and every provider call *)
(* that has been issued returns or fails                                     *)

NextLive ==
  \/ \E d \in TickSet : Tick(d)
  \/ \E p \in Params, ok \in BOOLEAN : GetTokenStart(1, p, ok)
  \/ \E ok \in BOOLEAN : LoadGet(1, ok)
  \/ \E ok \in BOOLEAN : GetTokens(1, ok)
  \/ \E ok \in BOOLEAN : IsExpired(1, ok)
  \/ \E o \in RefreshOutcomes, e \in ExpiresInSet : Refreshed(1, o, e)
  \/ \E ok \in BOOLEAN : UpdRead(1, ok)
  \/ \E ok \in BOOLEAN : UpdWrite(1, ok)
  \/ \E p \in Params, ok1, ok2, ok3 \in BOOLEAN : GetTokenFile(1, p, ok1, ok2, ok3)
  \/ \E o \in RefreshOutcomes, e \in ExpiresInSet, readOk, writeOk \in BOOLEAN :
       RefreshedFile(1, o, e, readOk, writeOk)
  \/ \E code, error \in BOOLEAN : CallbackStart(code, error)
  \/ \E o \in ExchangeOutcomes, e \in ExpiresInSet : CallbackExchange(o, e)
  \/ \E o \in IdentityOutcomes : CallbackIdentity(o)
  \/ \E ok \in BOOLEAN : CallbackSave(ok)
  \/ \E o \in IdentityOutcomes, readOk, writeOk \in BOOLEAN :
       CallbackIdentityFile(o, readOk, writeOk)
  \/ \E u \in Users, ok \in BOOLEAN : DeleteToken(u, ok)

\* a call that was issued returns or fails: the step that follows it is taken
Returns ==
  /\ WF_vars(\E ok \in BOOLEAN : LoadGet(1, ok))
  /\ WF_vars(\E ok \in BOOLEAN : GetTokens(1, ok))
  /\ WF_vars(\E ok \in BOOLEAN : IsExpired(1, ok))
  /\ WF_vars(\E o \in RefreshOutcomes, e \in ExpiresInSet : Refreshed(1, o, e))
  /\ WF_vars(\E ok \in BOOLEAN : UpdRead(1, ok))
  /\ WF_vars(\E ok \in BOOLEAN : UpdWrite(1, ok))
  /\ WF_vars(\E o \in RefreshOutcomes, e \in ExpiresInSet, readOk, writeOk \in BOOLEAN :
               RefreshedFile(1, o, e, readOk, writeOk))
  /\ WF_vars(\E o \in ExchangeOutcomes, e \in ExpiresInSet : CallbackExchange(o, e))
  /\ WF_vars(\E o \in IdentityOutcomes : CallbackIdentity(o))
  /\ WF_vars(\E ok \in BOOLEAN : CallbackSave(ok))
  /\ WF_vars(\E o \in IdentityOutcomes, readOk, writeOk \in BOOLEAN :
               CallbackIdentityFile(o, readOk, writeOk))

SpecLive == Init /\ [][NextLive]_vars /\ Returns

\* the number of responses the handler of r has sent
Responses(r) ==
  Cardinality({i \in DOMAIN req[r].steps : req[r].steps[i] = "respond"})

\* C32: every get-token request and every callback request that has arrived
\* is eventually answered, whatever store or provider call fails on the way,
\* and it is answered once: with 200, 404 or 500 for get-token and with 200,
\* 400 or 500 for the callback, and an answered request does nothing more
\* (the callback's record changes again only when the next callback arrives).
C32_EveryRequestIsAnswered ==
  /\ \A r \in ReqIds : InFlight(req[r]) ~> Done(r)
  /\ InFlight(cb) ~> (cb.pc = "done")
  /\ [](\A r \in ReqIds :
          /\ Responses(r) = IF Done(r) THEN 1 ELSE 0
          /\ Done(r) => req[r].res.status \in {200, 404, 500})
  /\ [](cb.pc = "done" => cb.status \in {200, 400, 500})
  /\ [][/\ \A r \in ReqIds : Done(r) => req'[r] = req[r]
        /\ (cb.pc = "done" /\ cbStarted' = cbStarted) => cb' = cb]_vars

\* the callback has been answered, and so has a get-token request whose
\* write of the refreshed token failed
C32_Witness ==
  /\ Done(1) /\ req[1].writeFailed /\ req[1].res.status = 500
  /\ cb.pc = "done"

====
